---- MODULE Spec2Model ----
(***************************************************************************)
(* Musaic Analyzer: the batch scheduler (app/endpoints/batch.py), the      *)
(* catalog writers (app/supabase_client.py) and the startup auto-start     *)
(* (app/main.py), modelled as an asyncio program: one action per block of  *)
(* code that runs between two suspension points of the event loop.         *)
(***************************************************************************)
EXTENDS Integers, Sequences, FiniteSets, TLC

\* ---------------------------------------------------------------- bounds
NumTracks == 4
MaxRuns == 2
MaxConcurrentAnalyses == 1
MaxNullTitles == 1
MaxSlowTracks == 1
NumRowsAll == 2
MaxJobs == 2
MaxApiRequests == 2
MaxUploads == 1
MaxEstimators == 3
MaxBeats == 9
MaxCoroutines == 2
MaxBeatEvents == 12
MaxVideos == 3

\* ------------------------------------------------------ program constants
TransferFactor == 3
SAMPLE_RATE == 44100
MinBeats == 8
tolerance == 30

Tracks == 1..NumTracks
Runs == 1..MaxRuns
JobIds == 1..MaxJobs
UploadIds == 1..MaxUploads
\* The tracks whose direct stream can take longer than analysis_timeout_seconds.
SlowTracks == {t \in Tracks : t > NumTracks - MaxSlowTracks}

VARIABLES
    catalog,               \* the "tracks" table: one row per soundcloud_id
    batch_state,           \* batch.py batch_state (read by the status query)
    batch_stats,           \* batch.py _batch_stats (guarded by _progress_lock)
    batch_include_failed,  \* batch.py _batch_include_failed
    loop,                  \* the process_batch_analysis invocations
    task,                  \* the analyze_single_track_streaming coroutines
    auto,                  \* position of auto_batch_on_startup
    response,              \* status of the last POST /analyze/batch response
    analysis_queue,        \* main.py analysis_queue (ids of single-track jobs)
    jobs,                  \* the process_track_analysis background tasks
    uploads,               \* the POST /analyze-bytes requests being handled
    full_reanalysis_state, \* batch.py full_reanalysis_state
    reanalysis,            \* the process_full_reanalysis background task
    api_requests,          \* single-track and re-analysis requests accepted so far
    chain,                 \* one track's way through the source chain, step by step
    temp_file,             \* whether the audio file that chain obtained is on disk
    estimates,             \* analyzer.py: what the five tempo estimators gave
    beat_events,           \* analyzer.py: the intervals between the beats found
    rhythm,                \* analyzer.py: what _extract_rhythm returned
    drop,                  \* analyzer.py: what the downbeat detector is called on
    beat_offset,           \* analyzer.py: the beat offset computed so far
    full_audio,            \* analyzer.py: what the highlight finder is called on
    highlight,             \* analyzer.py: what _find_highlight_and_extract returned
    progress_lock,         \* _progress_lock: who holds it (0: nobody)
    coroutine,             \* the coroutines that take _progress_lock, step by step
    thread,                \* the analysis thread each of them started
    running,               \* the coroutine the event loop is running (0: none)
    search,                \* downloader.py: what _search_youtube is called on
    found                  \* downloader.py: what _search_youtube returned

api_vars == <<analysis_queue, jobs, uploads, full_reanalysis_state, reanalysis,
             api_requests>>

chain_vars == <<chain, temp_file>>

rhythm_vars == <<estimates, beat_events, rhythm>>

drop_vars == <<drop, beat_offset>>

highlight_vars == <<full_audio, highlight>>

lock_vars == <<progress_lock, coroutine, thread, running>>

search_vars == <<search, found>>

analyzer_vars == <<rhythm_vars, drop_vars, highlight_vars, lock_vars, search_vars>>

vars == <<catalog, batch_state, batch_stats, batch_include_failed, loop, task,
          auto, response, api_vars, chain_vars, analyzer_vars>>

\* ------------------------------------------------------------ the catalog
Statuses == {"pending", "processing", "completed", "failed"}

\* The status written without the two columns that processing resets.
update_track_status_StatusOnly(row, status, error) ==
    LET r1 == [row EXCEPT !.analysis_status = status]
    IN  IF error # "" THEN [r1 EXCEPT !.analysis_error = error] ELSE r1

\* analyzed_at is modelled by whether it is non-null.
update_track_status(row, status, error) ==
    LET r1 == [row EXCEPT !.analysis_status = status]
        r2 == IF error # "" THEN [r1 EXCEPT !.analysis_error = error] ELSE r1
    IN  IF status = "processing"
        THEN [r2 EXCEPT !.analyzed_at = FALSE, !.analysis_error = "none"]
        ELSE r2

\* The fields of the two pydantic models.
AnalysisResult ==
    {"bpm_detected", "bpm_confidence", "key_detected", "key_confidence",
     "energy", "loudness", "dynamic_complexity", "spectral_centroid",
     "dissonance", "danceability", "speechiness", "instrumentalness",
     "acousticness", "valence", "liveness", "highlight_time", "embedding"}

TrackUpdate ==
    {"bpm_detected", "bpm_confidence", "key_detected", "key_confidence",
     "energy", "loudness", "dynamic_complexity", "spectral_centroid",
     "dissonance", "danceability", "speechiness", "instrumentalness",
     "acousticness", "valence", "liveness", "embedding",
     "analysis_status", "analysis_error", "analyzed_at"}

\* result.model_dump(), as the keys whose value is not None: every field of
\* AnalysisResult is required but embedding.
model_dump(embedding) ==
    IF embedding THEN AnalysisResult ELSE AnalysisResult \ {"embedding"}

\* The keyword arguments update_track_analysis gives TrackUpdate(...) with a
\* value that is not None; analysis_error=None is one that is None.
TrackUpdateArguments(analysis_result) ==
    (analysis_result \cap (AnalysisResult \cup {"beat_offset"}))
        \cup {"analysis_status", "analyzed_at"}

\* TrackUpdate(...) ignores a keyword that is not one of its fields, and
\* model_dump(exclude_none=True) gives the fields that are not None: the one
\* .update() writes them all, and leaves the other columns as they are.
update_track_analysis(row, analysis_result) ==
    LET written == TrackUpdateArguments(analysis_result) \cap TrackUpdate
    IN  [row EXCEPT !.analysis_status = "completed", !.analyzed_at = TRUE,
                    !.columns = @ \cup (written \cap AnalysisResult)]

\* The .or_() filter of the batch queries.
Selected(include_failed) ==
    {t \in Tracks :
        \/ catalog[t].analysis_status = "pending"
        \/ include_failed /\ catalog[t].analysis_status = "failed"
        \/ catalog[t].analysis_status = "processing" /\ ~catalog[t].analyzed_at}

\* -------------------------------------------------------------- semaphores
max_downloads == MaxConcurrentAnalyses * TransferFactor
max_analyses == MaxConcurrentAnalyses

CanAcquire_Unbounded(value) == TRUE

\* asyncio.Semaphore.acquire() returns at once iff the value is positive.
CanAcquire(value) == value > 0

\* ------------------------------------------------------------------ tasks
\* pc, audio_file/audio_bytes and the return value are the coroutine's own
\* state; held, log, persist_held and timed_out record what it has done: the
\* permits it holds, the phases it went through since it started (kept while
\* it is in flight), the permits it held when it wrote its result, and
\* whether its direct stream ran into the timeout.
NoTask == [pc |-> "none", run |-> 0, held |-> {}, log |-> <<>>,
           persist_held |-> {}, audio |-> "none", result |-> "none",
           timed_out |-> FALSE]

NewTask(r) == [NoTask EXCEPT !.pc = "created", !.run = r]

NoLoop == [pc |-> "none", tracks |-> {}, dl |-> 0, an |-> 0]

\* The part of the state one task step reads and writes.
Frame(t) ==
    [tk |-> task[t], row |-> catalog[t], stats |-> batch_stats,
     dl |-> loop[task[t].run].dl, an |-> loop[task[t].run].an]

Commit(t, m) ==
    /\ task' = [task EXCEPT ![t] = m.tk]
    /\ catalog' = [catalog EXCEPT ![t] = m.row]
    /\ batch_stats' = m.stats
    /\ loop' = [loop EXCEPT ![task[t].run].dl = m.dl, ![task[t].run].an = m.an]
    /\ UNCHANGED <<batch_state, batch_include_failed, auto, response, api_vars, chain_vars, analyzer_vars>>

Logged(m, ev) == [m EXCEPT !.tk.log = Append(@, ev)]

\* async with download_semaphore: __aenter__
AcquireTransfer(m) ==
    IF CanAcquire(m.dl)
    THEN Logged(Logged([m EXCEPT !.dl = @ - 1,
                                 !.tk.held = @ \cup {"transfer"},
                                 !.tk.pc = "streaming"],
                       "acquire_transfer"), "stream")
    ELSE [m EXCEPT !.tk.pc = "wait_transfer"]

\* The analyze block nested in the transfer block: no release in between.
ReleaseTransfer_Nested(m) == Logged(m, "release_transfer")

\* async with download_semaphore: __aexit__
ReleaseTransfer(m) ==
    Logged([m EXCEPT !.dl = @ + 1, !.tk.held = @ \ {"transfer"}],
           "release_transfer")

\* async with analyze_semaphore: __aenter__, then asyncio.to_thread(...)
AcquireAnalyze(m) ==
    IF CanAcquire(m.an)
    THEN Logged(Logged([m EXCEPT !.an = @ - 1,
                                 !.tk.held = @ \cup {"analyze"},
                                 !.tk.pc = "analyzing"],
                       "acquire_analyze"), "analyze")
    ELSE [m EXCEPT !.tk.pc = "wait_analyze"]

\* The analyze block left without giving its permit back.
ReleaseAnalyze_Kept(m) ==
    Logged([m EXCEPT !.tk.held = @ \ {"analyze"}], "release_analyze")

\* async with analyze_semaphore: __aexit__
ReleaseAnalyze(m) ==
    Logged([m EXCEPT !.an = @ + 1, !.tk.held = @ \ {"analyze"}],
           "release_analyze")

\* finally: cleanup_audio_file(audio_file)
Cleanup(m) == [m EXCEPT !.tk.audio = "none"]

\* return True / return False: the coroutine is over.
Return(m, value) ==
    Cleanup([m EXCEPT !.tk.pc = "done", !.tk.result = value, !.tk.log = <<>>])

\* SAVE PHASE: update_track_analysis
Persist(m) ==
    [m EXCEPT !.row = update_track_analysis(@, model_dump(TRUE)), !.tk.persist_held = m.tk.held]

\* The success counters under _progress_lock
CountSuccess(m) ==
    [m EXCEPT !.stats.completed = @ + 1, !.stats.successful = @ + 1]

SaveSuccess(m) == Return(CountSuccess(Persist(m)), "true")

\* The except handlers: status failed with a reason, failure counters
Failed(m, reason) ==
    Return([m EXCEPT !.row = update_track_status(@, "failed", reason),
                     !.stats.completed = @ + 1,
                     !.stats.failed = @ + 1],
           "false")

\* The reason each handler writes for the exception it catches: "Timeout" for
\* asyncio.TimeoutError, str(e) for the others (one token for every message).
Reason(exc) == IF exc = "TimeoutError" THEN "Timeout" ELSE "str(e)"

\* ------------------------------------------- analyze_single_track_streaming
\* The entry without the update to processing.
Begin_NoProcessing(m) ==
    IF m.row.title_null
    THEN Return(m, "raised")
    ELSE AcquireTransfer(m)

\* Entry up to the first suspension: title[:30] / artist[:20] raise TypeError
\* on a null column (outside the try); otherwise status -> processing and the
\* transfer permit is requested.
Begin(m) ==
    IF m.row.title_null
    THEN Return(m, "raised")
    ELSE AcquireTransfer(
            [m EXCEPT !.row = update_track_status(@, "processing", "")])

\* A task queued on the transfer semaphore gets its permit.
TaskAcquireTransfer(t) ==
    /\ task[t].pc = "wait_transfer"
    /\ CanAcquire(loop[task[t].run].dl)
    /\ Commit(t, AcquireTransfer(Frame(t)))

\* What asyncio.wait_for(stream_audio_to_memory(url), timeout) can produce:
\* bytes of at least MIN_AUDIO_SIZE, fewer bytes, DownloadError, TimeoutError.
StreamOutcomes(t) ==
    {"bytes", "small", "DownloadError"}
        \cup (IF t \in SlowTracks THEN {"TimeoutError"} ELSE {})

StreamReturns(t) ==
    /\ task[t].pc = "streaming"
    /\ \E outcome \in StreamOutcomes(t) :
        LET m == Frame(t) IN
        IF outcome = "bytes"
        THEN Commit(t, AcquireAnalyze(ReleaseTransfer(
                        [m EXCEPT !.tk.audio = "bytes"])))
        ELSE \* except (DownloadError, asyncio.TimeoutError): fallback download
             Commit(t, Logged([m EXCEPT !.tk.pc = "fallback",
                                        !.tk.timed_out = (outcome = "TimeoutError")],
                              "fallback"))

\* What download_full_audio_async can produce.
FallbackOutcomes == {"file", "DownloadError", "Exception"}

FallbackReturns(t) ==
    /\ task[t].pc = "fallback"
    /\ \E outcome \in FallbackOutcomes :
        LET m == Frame(t) IN
        IF outcome = "file"
        THEN Commit(t, AcquireAnalyze(ReleaseTransfer(
                        [m EXCEPT !.tk.audio = "file"])))
        ELSE Commit(t, Failed(ReleaseTransfer(m), Reason(outcome)))

\* A task queued on the analyze semaphore gets its permit.
TaskAcquireAnalyze(t) ==
    /\ task[t].pc = "wait_analyze"
    /\ CanAcquire(loop[task[t].run].an)
    /\ Commit(t, AcquireAnalyze(Frame(t)))

\* What asyncio.to_thread(analyze_audio[_from_bytes], ...) can produce.
AnalysisOutcomes == {"result", "AnalysisError"}

AnalysisReturns(t) ==
    /\ task[t].pc = "analyzing"
    /\ \E outcome \in AnalysisOutcomes :
        LET m == Frame(t) IN
        IF outcome = "result"
        THEN Commit(t, SaveSuccess(ReleaseAnalyze(m)))
        ELSE Commit(t, Failed(ReleaseAnalyze(m), Reason(outcome)))

\* ---------------------------------------------------- process_batch_analysis
\* gather without return_exceptions: the first exception a task raises is
\* raised in the caller, the other tasks go on running.
gather_Propagating(r) ==
    IF \E t \in loop[r].tracks : task[t].result = "raised"
    THEN "exception"
    ELSE IF \A t \in loop[r].tracks : task[t].pc = "done"
         THEN "results" ELSE "pending"

\* asyncio.gather(*tasks, return_exceptions=True): returns the list of results
\* once every task has ended; an exception a task raised is one of the results.
gather(r) ==
    IF \A t \in loop[r].tracks : task[t].pc = "done"
    THEN "results" ELSE "pending"

\* finally: is_running = False (current_track is never anything but None)
Finally(bs) == [bs EXCEPT !.is_running = FALSE]

\* One pass of `while True` from its top to `await asyncio.gather(...)`, or out
\* of the loop through `break`.  bs, tk0, lp: batch_state, the tasks and this
\* invocation's record as the code before the pass left them.
Iterate(r, bs, tk0, lp) ==
    LET tracks == Selected(batch_include_failed)
        n == Cardinality(tracks)
    IN  IF tracks = {}
        THEN /\ batch_state' = Finally(bs)
             /\ loop' = [loop EXCEPT ![r] = NoLoop]
             /\ task' = tk0
             /\ UNCHANGED batch_stats
        ELSE /\ batch_state' = [bs EXCEPT !.total_tracks = n, !.processed = 0,
                                          !.successful = 0, !.failed = 0]
             /\ batch_stats' = [completed |-> 0, successful |-> 0,
                                failed |-> 0, total |-> n]
             /\ task' = [t \in Tracks |->
                            IF t \in tracks THEN NewTask(r) ELSE tk0[t]]
             /\ loop' = [loop EXCEPT ![r] = [lp EXCEPT !.pc = "launched",
                                                       !.tracks = tracks]]

\* The semaphores are created once, before the loop.
NewLoop == [pc |-> "scheduled", tracks |-> {},
            dl |-> max_downloads, an |-> max_analyses]

\* The background task added by POST /analyze/batch starts running.
ProcessBatchStart(r) ==
    /\ loop[r].pc = "scheduled"
    /\ Iterate(r, batch_state, task, loop[r])
    /\ UNCHANGED <<catalog, batch_include_failed, auto, response, api_vars, chain_vars, analyzer_vars>>

\* The event loop runs the first step of the tasks gather() has just created
\* one after the other, in the order of the query's rows.
RECURSIVE BeginAll(_, _, _, _, _)
BeginAll(r, i, tk, cat, dl) ==
    IF i > NumTracks
    THEN [task |-> tk, catalog |-> cat, dl |-> dl]
    ELSE IF tk[i].pc = "created" /\ tk[i].run = r
         THEN LET m == Begin([tk |-> tk[i], row |-> cat[i], stats |-> batch_stats,
                              dl |-> dl, an |-> loop[r].an])
              IN  BeginAll(r, i + 1, [tk EXCEPT ![i] = m.tk],
                           [cat EXCEPT ![i] = m.row], m.dl)
         ELSE BeginAll(r, i + 1, tk, cat, dl)

TasksBegin(r) ==
    /\ loop[r].pc = "launched"
    /\ LET b == BeginAll(r, 1, task, catalog, loop[r].dl) IN
        /\ task' = b.task
        /\ catalog' = b.catalog
        /\ loop' = [loop EXCEPT ![r].pc = "gather", ![r].dl = b.dl]
    /\ UNCHANGED <<batch_state, batch_stats, batch_include_failed, auto,
                   response, api_vars, chain_vars, analyzer_vars>>

\* for result in results: processed += 1, and successful += 1 if result is
\* True, failed += 1 otherwise (an exception among the results included).
CountResults(r) ==
    LET ts == loop[r].tracks
        ok == {t \in ts : task[t].result = "true"}
    IN  [batch_state EXCEPT !.processed = @ + Cardinality(ts),
                            !.successful = @ + Cardinality(ok),
                            !.failed = @ + Cardinality(ts \ ok)]

\* gather returned: count the results, re-query, loop or stop.
GatherReturns(r) ==
    /\ loop[r].pc = "gather"
    /\ gather(r) # "pending"
    /\ IF gather(r) = "exception"
       THEN /\ batch_state' = Finally(batch_state)
            /\ loop' = [loop EXCEPT ![r] = NoLoop]
            /\ UNCHANGED <<task, batch_stats>>
       ELSE LET ts == loop[r].tracks
                tk0 == [t \in Tracks |-> IF t \in ts THEN NoTask ELSE task[t]]
            IN  Iterate(r, CountResults(r), tk0, loop[r])
    /\ UNCHANGED <<catalog, batch_include_failed, auto, response, api_vars, chain_vars, analyzer_vars>>

\* ------------------------------------------------------ POST /analyze/batch
AlreadyRunning_NoGuard == FALSE

\* if batch_state["is_running"]: return ... status="already_running"
AlreadyRunning == batch_state.is_running

FreeRuns == {r \in Runs : loop[r].pc = "none"}
FreeRun == CHOOSE r \in FreeRuns : \A q \in FreeRuns : r <= q

\* The selection mode stored before the is_running test.
analyze_all_tracks_StoreFirst(include_failed) ==
    /\ FreeRuns # {}
    /\ batch_include_failed' = include_failed
    /\ IF AlreadyRunning
       THEN /\ response' = "already_running"
            /\ UNCHANGED <<batch_state, loop>>
       ELSE LET total == Cardinality(Selected(include_failed)) IN
            IF total = 0
            THEN /\ response' = "no_tracks"
                 /\ UNCHANGED <<batch_state, loop>>
            ELSE /\ batch_state' = [batch_state EXCEPT !.is_running = TRUE,
                                                       !.total_tracks = total]
                 /\ loop' = [loop EXCEPT ![FreeRun] = NewLoop]
                 /\ response' = "started"
    /\ UNCHANGED <<catalog, batch_stats, task, auto, api_vars, chain_vars, analyzer_vars>>

analyze_all_tracks(include_failed) ==
    /\ FreeRuns # {}
    /\ IF AlreadyRunning
       THEN /\ response' = "already_running"
            /\ UNCHANGED <<batch_state, batch_include_failed, loop>>
       ELSE LET total == Cardinality(Selected(include_failed)) IN
            IF total = 0
            THEN /\ response' = "no_tracks"
                 /\ UNCHANGED <<batch_state, batch_include_failed, loop>>
            ELSE /\ batch_include_failed' = include_failed
                 /\ batch_state' = [batch_state EXCEPT !.is_running = TRUE,
                                                       !.total_tracks = total]
                 /\ loop' = [loop EXCEPT ![FreeRun] = NewLoop]
                 /\ response' = "started"
    /\ UNCHANGED <<catalog, batch_stats, task, auto, api_vars, chain_vars, analyzer_vars>>

\* ------------------------------------------------- auto_batch_on_startup
\* After the sleep: skip when a batch is running, else set is_running and run
\* process_batch_analysis inline up to its first suspension.
auto_batch_on_startup ==
    /\ auto = "sleeping"
    /\ FreeRuns # {}
    /\ auto' = "past the check"
    /\ IF batch_state["is_running"]
       THEN UNCHANGED <<batch_state, batch_stats, loop, task>>
       ELSE Iterate(FreeRun, [batch_state EXCEPT !.is_running = TRUE],
                    task, NewLoop)
    /\ UNCHANGED <<catalog, batch_include_failed, response, api_vars, chain_vars, analyzer_vars>>

\* ------------------------------------------------------------------- Init
InitRow(status, null) ==
    [analysis_status |-> status, analyzed_at |-> (status = "completed"),
     analysis_error |-> "none", title_null |-> null,
     columns |-> IF status = "completed" THEN AnalysisResult ELSE {}]

\* No row with this soundcloud_id.
NoRow == InitRow("absent", FALSE)

\* No coroutine that takes _progress_lock is followed step by step.
NoLock ==
    /\ progress_lock = 0
    /\ coroutine = <<>>
    /\ thread = <<>>
    /\ running = 0

\* No call of _search_youtube is modelled.
NoSearch ==
    /\ search = <<>>
    /\ found = <<>>

\* No call of the highlight finder is modelled.
NoHighlight ==
    /\ full_audio = <<>>
    /\ highlight = <<>>

\* No call of the downbeat detector is modelled.
NoDrop ==
    /\ drop = <<>>
    /\ beat_offset = <<>>

\* No call of _extract_rhythm is modelled: no estimate, no result.
NoRhythm ==
    /\ estimates = <<>>
    /\ beat_events = <<>>
    /\ rhythm = <<>>

\* title, artist, duration: whether the column of the row is not null;
\* client_id: whether settings.soundcloud_client_id is set; log: the calls
\* made to the sources with what each gave; audio_bytes: len(audio_bytes), -1
\* for None; audio_file: whether the task's path variable is set; analyzed:
\* what analyze_audio[_from_bytes] was given.
NoChain ==
    [path |-> "none", pc |-> "none", title |-> FALSE, artist |-> FALSE,
     duration |-> FALSE, client_id |-> FALSE, log |-> <<>>,
     audio_bytes |-> -1, audio_file |-> FALSE, analyzed |-> "none",
     cleanup |-> "none", result |-> "none"]

NoJob == [pc |-> "none", id |-> 0]
NoUpload == [pc |-> "none", id |-> 0]
NoReanalysis == [pc |-> "none", todo |-> <<>>]

InitBatch ==
    /\ batch_state = [is_running |-> FALSE, total_tracks |-> 0,
                      processed |-> 0, successful |-> 0, failed |-> 0]
    /\ batch_stats = [completed |-> 0, successful |-> 0, failed |-> 0,
                      total |-> 0]
    /\ batch_include_failed = FALSE
    /\ loop = [r \in Runs |-> NoLoop]
    /\ task = [t \in Tracks |-> NoTask]
    /\ auto = "sleeping"
    /\ response = "none"
    /\ analysis_queue = <<>>
    /\ jobs = [j \in JobIds |-> NoJob]
    /\ uploads = [u \in UploadIds |-> NoUpload]
    /\ full_reanalysis_state = [is_running |-> FALSE, total_tracks |-> 0,
                                processed |-> 0, successful |-> 0, failed |-> 0]
    /\ reanalysis = NoReanalysis
    /\ api_requests = 0

\* The catalog the service finds at startup: rows waiting for analysis, the
\* last one possibly left in processing by an earlier process, the first ones
\* possibly with a null title or artist.
Init ==
    /\ \E k \in 0..MaxNullTitles, s \in {"pending", "processing"} :
          catalog = [t \in Tracks |->
                        InitRow(IF t = NumTracks THEN s ELSE "pending", t <= k)]
    /\ InitBatch
    /\ chain = NoChain
    /\ temp_file = FALSE
    /\ NoRhythm
    /\ NoDrop
    /\ NoHighlight
    /\ NoLock
    /\ NoSearch

TaskStep(t) ==
    \/ TaskAcquireTransfer(t)
    \/ StreamReturns(t)
    \/ FallbackReturns(t)
    \/ TaskAcquireAnalyze(t)
    \/ AnalysisReturns(t)

Next ==
    \/ \E include_failed \in BOOLEAN : analyze_all_tracks(include_failed)
    \/ auto_batch_on_startup
    \/ \E r \in Runs : ProcessBatchStart(r)
    \/ \E r \in Runs : TasksBegin(r)
    \/ \E r \in Runs : GatherReturns(r)
    \/ \E t \in Tracks : TaskStep(t)

Spec == Init /\ [][Next]_vars


\* ------------------------------------------------------------ POST /analyze
batch_vars == <<batch_state, batch_stats, batch_include_failed, loop, task,
                auto, response>>

Present(id) == catalog[id].analysis_status # "absent"

InQueue(id) == \E i \in 1..Len(analysis_queue) : analysis_queue[i] = id

\* deque.remove(x): drops the first occurrence
RECURSIVE Remove(_, _)
Remove(q, id) ==
    IF q = <<>> THEN <<>>
    ELSE IF Head(q) = id THEN Tail(q)
    ELSE <<Head(q)>> \o Remove(Tail(q), id)

\* An accepted request counts against the number of requests the model follows.
Accept ==
    /\ api_requests < MaxApiRequests
    /\ api_requests' = api_requests + 1
    /\ UNCHANGED <<chain_vars, analyzer_vars>>

FreeJobs == {j \in JobIds : jobs[j].pc = "none"}
FreeJob == CHOOSE j \in FreeJobs : \A k \in FreeJobs : j <= k

\* The handler: 404 for an unknown id and "already_analyzing" for an id in the
\* queue change nothing; otherwise the job is added as a background task.
analyze_track(id) ==
    /\ Accept
    /\ Present(id)
    /\ ~InQueue(id)
    /\ FreeJobs # {}
    /\ jobs' = [jobs EXCEPT ![FreeJob] = [pc |-> "scheduled", id |-> id]]
    /\ UNCHANGED <<catalog, batch_vars, analysis_queue, uploads,
                   full_reanalysis_state, reanalysis>>

\* process_track_analysis up to the download: queue.append, status processing
JobBegin(j) ==
    /\ UNCHANGED <<api_requests, chain_vars, analyzer_vars>>
    /\ jobs[j].pc = "scheduled"
    /\ analysis_queue' = Append(analysis_queue, jobs[j].id)
    /\ catalog' = [catalog EXCEPT
                      ![jobs[j].id] = update_track_status(@, "processing", "")]
    /\ jobs' = [jobs EXCEPT ![j].pc = "downloading"]
    /\ UNCHANGED <<batch_vars, uploads, full_reanalysis_state, reanalysis>>

\* The except handlers and the finally block of process_track_analysis
JobFails(j) ==
    /\ catalog' = [catalog EXCEPT
                      ![jobs[j].id] = update_track_status(@, "failed", "str(e)")]
    /\ analysis_queue' = Remove(analysis_queue, jobs[j].id)
    /\ jobs' = [jobs EXCEPT ![j] = NoJob]

\* wait_for(download_full_audio_async(...)): a file, or DownloadError (a
\* timeout is turned into one), or another exception.
JobDownloadReturns(j) ==
    /\ UNCHANGED <<api_requests, chain_vars, analyzer_vars>>
    /\ jobs[j].pc = "downloading"
    /\ \E outcome \in {"file", "DownloadError", "Exception"} :
          IF outcome = "file"
          THEN /\ jobs' = [jobs EXCEPT ![j].pc = "analyzing"]
               /\ UNCHANGED <<catalog, analysis_queue>>
          ELSE JobFails(j)
    /\ UNCHANGED <<batch_vars, uploads, full_reanalysis_state, reanalysis>>

JobAnalysisReturns(j) ==
    /\ UNCHANGED <<api_requests, chain_vars, analyzer_vars>>
    /\ jobs[j].pc = "analyzing"
    /\ \E outcome \in {"result", "AnalysisError"} :
          IF outcome = "result"
          THEN /\ catalog' = [catalog EXCEPT
                                 ![jobs[j].id] = update_track_analysis(@, model_dump(TRUE))]
               /\ analysis_queue' = Remove(analysis_queue, jobs[j].id)
               /\ jobs' = [jobs EXCEPT ![j] = NoJob]
          ELSE JobFails(j)
    /\ UNCHANGED <<batch_vars, uploads, full_reanalysis_state, reanalysis>>

\* ------------------------------------------------------ POST /analyze-bytes
FreeUploads == {u \in UploadIds : uploads[u].pc = "none"}
FreeUpload == CHOOSE u \in FreeUploads : \A k \in FreeUploads : u <= k

\* analyze_from_bytes up to `await audio.read()`
AnalyzeBytesBegin(id) ==
    /\ Accept
    /\ Present(id)
    /\ FreeUploads # {}
    /\ catalog' = [catalog EXCEPT ![id] = update_track_status(@, "processing", "")]
    /\ uploads' = [uploads EXCEPT ![FreeUpload] = [pc |-> "reading", id |-> id]]
    /\ UNCHANGED <<batch_vars, analysis_queue, jobs, full_reanalysis_state,
                   reanalysis>>

\* the analysis (run inline) and the catalog write that answers the request
AnalyzeBytesFinish(u) ==
    /\ UNCHANGED <<api_requests, chain_vars, analyzer_vars>>
    /\ uploads[u].pc = "reading"
    /\ \E outcome \in {"result", "AnalysisError", "Exception"} :
          catalog' = [catalog EXCEPT ![uploads[u].id] =
                         IF outcome = "result"
                         THEN update_track_analysis(@, model_dump(TRUE))
                         ELSE update_track_status(@, "failed", "str(e)")]
    /\ uploads' = [uploads EXCEPT ![u] = NoUpload]
    /\ UNCHANGED <<batch_vars, analysis_queue, jobs, full_reanalysis_state,
                   reanalysis>>

\* ------------------------------------------ POST /analyze/batch/full-reanalysis
Completed == {t \in Tracks : catalog[t].analysis_status = "completed"}

\* The rows of a query in the order it returns them (created_at descending:
\* the highest id first).
RECURSIVE Ordered(_)
Ordered(ids) ==
    IF ids = {} THEN <<>>
    ELSE LET top == CHOOSE t \in ids : \A u \in ids : u <= t
         IN  <<top>> \o Ordered(ids \ {top})

\* The handler: "already_running" and "no_tracks" change nothing.
reanalyze_all_tracks_full ==
    /\ Accept
    /\ ~full_reanalysis_state.is_running
    /\ Completed # {}
    /\ full_reanalysis_state' =
          [is_running |-> TRUE, total_tracks |-> Cardinality(Completed),
           processed |-> 0, successful |-> 0, failed |-> 0]
    /\ reanalysis' = [pc |-> "scheduled", todo |-> <<>>]
    /\ UNCHANGED <<catalog, batch_vars, analysis_queue, jobs, uploads>>

\* process_full_reanalysis up to the first stream_audio_to_memory
ProcessFullReanalysisStart ==
    /\ UNCHANGED <<api_requests, chain_vars, analyzer_vars>>
    /\ reanalysis.pc = "scheduled"
    /\ IF Completed = {}
       THEN /\ full_reanalysis_state' =
                  [full_reanalysis_state EXCEPT !.is_running = FALSE]
            /\ reanalysis' = NoReanalysis
       ELSE /\ full_reanalysis_state' =
                  [full_reanalysis_state EXCEPT
                      !.total_tracks = Cardinality(Completed)]
            /\ reanalysis' = [pc |-> "streaming", todo |-> Ordered(Completed)]
    /\ UNCHANGED <<catalog, batch_vars, analysis_queue, jobs, uploads>>

\* Every except handler writing the failure to the row.
ReanalysedRow_MarksFailed(row, outcome) ==
    IF outcome = "result"
    THEN update_track_analysis(row, model_dump(TRUE))
    ELSE update_track_status(row, "failed", "str(e)")

\* The row after the try block: rewritten by update_track_analysis when the
\* stream, the analysis and the write succeeded; the except handlers only log
\* and count.
ReanalysedRow(row, outcome) ==
    IF outcome = "result"
    THEN update_track_analysis(row, model_dump(TRUE))
    ELSE row

\* The stream of the current track returns; the analysis runs inline; on
\* success the row is rewritten, on any failure only the counters change.
\* Then the next track's stream starts, or the task ends.
ReanalysisStreamReturns ==
    /\ UNCHANGED <<api_requests, chain_vars, analyzer_vars>>
    /\ reanalysis.pc = "streaming"
    /\ \E outcome \in {"result", "TimeoutError", "Exception"} :
          LET id == Head(reanalysis.todo)
              rest == Tail(reanalysis.todo)
              st == IF outcome = "result"
                    THEN [full_reanalysis_state EXCEPT
                             !.successful = @ + 1, !.processed = @ + 1]
                    ELSE [full_reanalysis_state EXCEPT
                             !.failed = @ + 1, !.processed = @ + 1]
          IN  /\ catalog' = [catalog EXCEPT ![id] = ReanalysedRow(@, outcome)]
              /\ IF rest = <<>>
                 THEN /\ full_reanalysis_state' = [st EXCEPT !.is_running = FALSE]
                      /\ reanalysis' = NoReanalysis
                 ELSE /\ full_reanalysis_state' = st
                      /\ reanalysis' = [reanalysis EXCEPT !.todo = rest]
    /\ UNCHANGED <<batch_vars, analysis_queue, jobs, uploads>>

ApiNext ==
    \/ \E id \in Tracks : analyze_track(id)
    \/ \E j \in JobIds : JobBegin(j)
    \/ \E j \in JobIds : JobDownloadReturns(j)
    \/ \E j \in JobIds : JobAnalysisReturns(j)
    \/ \E id \in Tracks : AnalyzeBytesBegin(id)
    \/ \E u \in UploadIds : AnalyzeBytesFinish(u)
    \/ reanalyze_all_tracks_full
    \/ ProcessFullReanalysisStart
    \/ ReanalysisStreamReturns

\* A catalog of NumRowsAll rows, each waiting for analysis or analysed.
InitAll ==
    /\ \E st \in [1..NumRowsAll -> {"pending", "completed"}] :
          catalog = [t \in Tracks |->
                        IF t <= NumRowsAll THEN InitRow(st[t], FALSE) ELSE NoRow]
    /\ InitBatch
    /\ chain = NoChain
    /\ temp_file = FALSE
    /\ NoRhythm
    /\ NoDrop
    /\ NoHighlight
    /\ NoLock
    /\ NoSearch

\* With NumRowsAll rows a round has at most NumRowsAll tasks, fewer than the
\* transfer semaphore has permits: no task ever waits for a transfer permit.
TaskStepAll(t) ==
    \/ StreamReturns(t)
    \/ FallbackReturns(t)
    \/ TaskAcquireAnalyze(t)
    \/ AnalysisReturns(t)

NextAll ==
    \/ \E include_failed \in BOOLEAN : analyze_all_tracks(include_failed)
    \/ auto_batch_on_startup
    \/ \E r \in Runs : ProcessBatchStart(r)
    \/ \E r \in Runs : TasksBegin(r)
    \/ \E r \in Runs : GatherReturns(r)
    \/ \E t \in Tracks : TaskStepAll(t)
    \/ ApiNext

\* Every writer of the catalog: the batch, POST /analyze, POST /analyze-bytes
\* and the full re-analysis.
SpecAll == InitAll /\ [][NextAll]_vars

\* ------------------------------------------------------ the source chain
\* One track followed call by call through the code that fetches its audio,
\* on each of the five paths that do: the batch task, the POST /analyze job,
\* the two modes of scripts/analyze_all_tracks.py and the full re-analysis.
MIN_AUDIO_SIZE == 102400

Paths == {"batch", "analyze", "cli_download", "cli_stream", "reanalysis"}

\* The payload sizes followed: empty, an error page of 500 bytes, and the
\* floor's neighbourhood.
PayloadSizes ==
    {0, 500, MIN_AUDIO_SIZE - 1, MIN_AUDIO_SIZE, MIN_AUDIO_SIZE + 1}

ChainTrack == CHOOSE t \in Tracks : \A u \in Tracks : t <= u

Called(c, stage, outcome) == [c EXCEPT !.log = Append(@, <<stage, outcome>>)]

\* asyncio.wait_for(call, timeout): what the call gives, or TimeoutError.
wait_for(outcomes) == outcomes \cup {[kind |-> "TimeoutError", size |-> 0]}

Raises(kinds) == {[kind |-> k, size |-> 0] : k \in kinds}

\* stream_audio_to_memory: DownloadError at once without a client id;
\* otherwise the bytes of the response, whatever their number, or
\* DownloadError (every other exception is turned into one).
stream_audio_to_memory(client_id) ==
    IF client_id
    THEN {[kind |-> "bytes", size |-> n] : n \in PayloadSizes}
            \cup Raises({"DownloadError"})
    ELSE Raises({"DownloadError"})

\* stream_audio_to_file: a file of at least MIN_AUDIO_SIZE bytes, or
\* DownloadError after removing what it wrote.
stream_audio_to_file(client_id) ==
    IF client_id
    THEN {[kind |-> "file", size |-> n] :
              n \in {m \in PayloadSizes : ~(m < MIN_AUDIO_SIZE)}}
            \cup Raises({"DownloadError"})
    ELSE Raises({"DownloadError"})

\* _try_direct_download_async: the path of a file of at least MIN_AUDIO_SIZE
\* bytes, or None (every exception is caught).
try_direct_download_async ==
    {[kind |-> "file", size |-> n] :
         n \in {m \in PayloadSizes : m >= MIN_AUDIO_SIZE}}
        \cup Raises({"None"})

\* _download_with_ytdlp and _download_from_youtube: subprocess.run raises
\* CalledProcessError or TimeoutExpired (both turned into DownloadError) or,
\* when it cannot start the tool, an OSError that nothing catches; then the
\* size of the file is checked.
download_with_ytdlp ==
    {[kind |-> "file", size |-> n] :
         n \in {m \in PayloadSizes : m >= MIN_AUDIO_SIZE}}
        \cup Raises({"CalledProcessError", "TimeoutExpired", "too small",
                     "no file", "FileNotFoundError"})

download_from_youtube == download_with_ytdlp

\* _search_youtube: a URL, or None (timeout, exit code, no match), or the
\* OSError of a tool that cannot be started.
search_youtube == Raises({"url", "None", "FileNotFoundError"})

\* The exception a failed call leaves the function with.
DownloadErrors == {"CalledProcessError", "TimeoutExpired", "too small", "no file"}

\* if title and artist and duration_ms: only the batch task passes them.
HasMetadata(c) == c.path = "batch" /\ c.title /\ c.artist /\ c.duration

\* The direct download left out.
FirstDownload_SkipsDirect(c) == "ytdlp"

\* if settings.soundcloud_client_id: the first call of
\* download_full_audio_async.
FirstDownload(c) == IF c.client_id THEN "direct" ELSE "ytdlp"

\* A stream under wait_for: without a client id it raises before it awaits
\* anything.
Awaited(c, outcomes) == IF c.client_id THEN wait_for(outcomes) ELSE outcomes

\* download_full_audio_async is under wait_for in process_track_analysis and
\* in the CLI's download mode, not in the batch task.
Cancellable(c, outcomes) ==
    IF c.path \in {"analyze", "cli_download"} THEN wait_for(outcomes)
    ELSE outcomes

\* cleanup_audio_file: unlink, or an exception that is logged.
cleanup_audio_file == {"removed", "failed"}

\* The finally block of each task.
CleansUp(c) == c.audio_file /\ c.path \in {"batch", "analyze", "cli_download"}

ChainEnds(c, value) ==
    /\ \E outcome \in cleanup_audio_file :
          IF CleansUp(c)
          THEN /\ chain' = [c EXCEPT !.pc = "done", !.result = value,
                                     !.cleanup = outcome]
               /\ temp_file' = (outcome = "failed")
          ELSE /\ chain' = [c EXCEPT !.pc = "done", !.result = value]
               /\ UNCHANGED temp_file

\* process_track_analysis turns the timeout into DownloadError("Download
\* timed out"); the other tasks write "Timeout".
ChainReason(c, exc) == IF c.path = "analyze" THEN "str(e)" ELSE Reason(exc)

\* The except handlers: status failed with the reason; the full re-analysis
\* only counts the failure.
ChainFails(c, exc) ==
    /\ catalog' = [catalog EXCEPT ![ChainTrack] =
                      IF c.path = "reanalysis" THEN @
                      ELSE update_track_status(@, "failed", ChainReason(c, exc))]
    /\ ChainEnds(c, "False")

\* A download function returned a path.
ChainDownloaded(c) ==
    /\ chain' = [c EXCEPT !.pc = "analyze", !.audio_file = TRUE,
                          !.analyzed = "file"]
    /\ temp_file' = TRUE
    /\ UNCHANGED catalog

ChainGoes(c, pc) ==
    /\ chain' = [c EXCEPT !.pc = pc]
    /\ UNCHANGED <<catalog, temp_file>>

\* Each task up to its first call to a source.
ChainBegin ==
    /\ chain.pc = "start"
    /\ IF chain.path = "batch" /\ ~(chain.title /\ chain.artist)
       THEN /\ chain' = [chain EXCEPT !.pc = "done", !.result = "raised"]
            /\ UNCHANGED <<catalog, temp_file>>
       ELSE /\ catalog' = [catalog EXCEPT ![ChainTrack] =
                             IF chain.path = "reanalysis" THEN @
                             ELSE update_track_status(@, "processing", "")]
            /\ chain' = [chain EXCEPT !.pc =
                            CASE chain.path \in {"batch", "reanalysis"} -> "stream"
                              [] chain.path = "cli_stream" -> "stream_file"
                              [] OTHER -> FirstDownload(chain)]
            /\ UNCHANGED temp_file
    /\ UNCHANGED <<batch_vars, api_vars, analyzer_vars>>

\* The bytes handed on without the size test.
AcceptsPayload_NoFloor(path, size) == TRUE

\* if len(audio_bytes) < MIN_AUDIO_SIZE: raise DownloadError  (batch task);
\* the full re-analysis has no such test.
AcceptsPayload(path, size) == path = "reanalysis" \/ ~(size < MIN_AUDIO_SIZE)

\* wait_for(stream_audio_to_memory(url)) returns or raises.
ChainStreamReturns ==
    /\ chain.pc = "stream"
    /\ \E o \in Awaited(chain, stream_audio_to_memory(chain.client_id)) :
          IF o.kind = "bytes"
          THEN IF AcceptsPayload(chain.path, o.size)
               THEN /\ chain' = [Called(chain, "stream", "bytes") EXCEPT
                                    !.pc = "analyze", !.audio_bytes = o.size,
                                    !.analyzed = "bytes"]
                    /\ UNCHANGED <<catalog, temp_file>>
               ELSE ChainGoes([Called(chain, "stream", "too small") EXCEPT
                                  !.audio_bytes = o.size],
                              FirstDownload(chain))
          ELSE IF chain.path = "batch"
               THEN ChainGoes(Called(chain, "stream", o.kind),
                              FirstDownload(chain))
               ELSE ChainFails(Called(chain, "stream", o.kind), o.kind)
    /\ UNCHANGED <<batch_vars, api_vars, analyzer_vars>>

\* wait_for(stream_audio_to_file(url)) returns or raises (CLI stream mode).
ChainStreamFileReturns ==
    /\ chain.pc = "stream_file"
    /\ \E o \in Awaited(chain, stream_audio_to_file(chain.client_id)) :
          IF o.kind = "file"
          THEN ChainDownloaded(Called(chain, "stream_file", "file"))
          ELSE ChainFails(Called(chain, "stream_file", o.kind), o.kind)
    /\ UNCHANGED <<batch_vars, api_vars, analyzer_vars>>

\* download_full_audio_async: _try_direct_download_async returns.
ChainDirectReturns ==
    /\ chain.pc = "direct"
    /\ \E o \in Cancellable(chain, try_direct_download_async) :
          CASE o.kind = "file" ->
                  ChainDownloaded(Called(chain, "direct", "file"))
            [] o.kind = "None" ->
                  ChainGoes(Called(chain, "direct", "None"), "ytdlp")
            [] OTHER -> ChainFails(Called(chain, "direct", o.kind), o.kind)
    /\ UNCHANGED <<batch_vars, api_vars, analyzer_vars>>

\* The search stage entered whatever the metadata.
AfterYtdlpFails_NoGate(c) == "search"

\* except DownloadError: pass, then `if title and artist and duration_ms`;
\* otherwise raise DownloadError("All download methods failed").
AfterYtdlpFails(c) == IF HasMetadata(c) THEN "search" ELSE "raise"

\* download_full_audio_async: to_thread(_download_with_ytdlp) returns.
ChainYtdlpReturns ==
    /\ chain.pc = "ytdlp"
    /\ \E o \in Cancellable(chain, download_with_ytdlp) :
          LET c == Called(chain, "ytdlp", o.kind) IN
          CASE o.kind = "file" -> ChainDownloaded(c)
            [] o.kind \in DownloadErrors ->
                  IF AfterYtdlpFails(c) = "search"
                  THEN ChainGoes(c, "search")
                  ELSE ChainFails(c, "DownloadError")
            [] OTHER -> ChainFails(c, o.kind)
    /\ UNCHANGED <<batch_vars, api_vars, analyzer_vars>>

\* download_full_audio_async: _search_youtube returns.
ChainSearchReturns ==
    /\ chain.pc = "search"
    /\ \E o \in Cancellable(chain, search_youtube) :
          LET c == Called(chain, "search", o.kind) IN
          CASE o.kind = "url" -> ChainGoes(c, "youtube")
            [] o.kind = "None" -> ChainFails(c, "DownloadError")
            [] OTHER -> ChainFails(c, o.kind)
    /\ UNCHANGED <<batch_vars, api_vars, analyzer_vars>>

\* download_full_audio_async: to_thread(_download_from_youtube) returns.
ChainYoutubeReturns ==
    /\ chain.pc = "youtube"
    /\ \E o \in Cancellable(chain, download_from_youtube) :
          LET c == Called(chain, "youtube", o.kind) IN
          CASE o.kind = "file" -> ChainDownloaded(c)
            [] o.kind \in DownloadErrors -> ChainFails(c, "DownloadError")
            [] OTHER -> ChainFails(c, o.kind)
    /\ UNCHANGED <<batch_vars, api_vars, analyzer_vars>>

\* analyze_audio / analyze_audio_from_bytes returns or raises; on a result
\* the row is written; then the finally block.
ChainAnalysisReturns ==
    /\ chain.pc = "analyze"
    /\ \E outcome \in AnalysisOutcomes, embedding \in BOOLEAN :
          IF outcome = "result"
          THEN /\ catalog' = [catalog EXCEPT ![ChainTrack] =
                                 update_track_analysis(@, model_dump(embedding))]
               /\ ChainEnds(chain, "True")
          ELSE ChainFails(chain, outcome)
    /\ UNCHANGED <<batch_vars, api_vars, analyzer_vars>>

ChainNext ==
    \/ ChainBegin
    \/ ChainStreamReturns
    \/ ChainStreamFileReturns
    \/ ChainDirectReturns
    \/ ChainYtdlpReturns
    \/ ChainSearchReturns
    \/ ChainYoutubeReturns
    \/ ChainAnalysisReturns

\* One row, one task about to start on one of the paths.
InitChain ==
    /\ InitBatch
    /\ temp_file = FALSE
    /\ NoRhythm
    /\ NoDrop
    /\ NoHighlight
    /\ NoLock
    /\ NoSearch
    /\ \E path \in Paths, title, artist, duration, client_id \in BOOLEAN :
          /\ chain = [NoChain EXCEPT !.path = path, !.pc = "start",
                                     !.title = title, !.artist = artist,
                                     !.duration = duration,
                                     !.client_id = client_id]
          /\ catalog = [t \in Tracks |->
                           IF t = ChainTrack
                           THEN InitRow(IF path = "reanalysis" THEN "completed"
                                        ELSE "pending", ~(title /\ artist))
                           ELSE NoRow]

SpecChain == InitChain /\ [][ChainNext]_vars

\* ------------------------------------------- analyzer.py: the tempo consensus
\* The estimators of _extract_rhythm in the order their candidates are
\* collected.
Estimators == <<"cnn", "multi", "degara", "loop", "beats">>

\* What an estimator can give.  A BPM of 0 is what the code holds when the
\* estimator raised, when the TempoCNN model is unavailable, or when too few
\* beat intervals are valid.  Confidences count thousandths.
BpmValues == {64, 100, 128, 132, 192, 200, 399}

ConfValues == {500, 600, 900}

NoEstimate == [bpm |-> 0, conf |-> 0]

\* conf_loop = 0.7 when LoopBpmEstimator answers; the BPM computed from the
\* beat intervals has no confidence of its own, its candidate is given 0.6.
EstimatorConfs(src) ==
    CASE src = "loop" -> {700}
      [] src = "beats" -> {600}
      [] OTHER -> ConfValues

\* The beats of RhythmExtractor2013 behind the fifth estimate, as the
\* intervals np.diff(beats) gives, each in thousandths of their median (the
\* interval 60 / bpm_from_beats): none when there is no such estimate; else
\* five beats, or twelve beats evenly spaced, or twelve with five intervals
\* 1% or 4% shorter than the others.
BeatPatterns(beats) ==
    IF beats.bpm = 0 THEN {<<>>}
    ELSE {[k \in 1..4 |-> 1000],
          [k \in 1..(MaxBeatEvents - 1) |-> 1000],
          [k \in 1..(MaxBeatEvents - 1) |-> IF k % 2 = 0 THEN 990 ELSE 1000],
          [k \in 1..(MaxBeatEvents - 1) |-> IF k % 2 = 0 THEN 960 ELSE 1000]}

EstimatorOutputs(src) ==
    {NoEstimate} \cup [bpm : BpmValues, conf : EstimatorConfs(src)]

\* A BPM is a float in the code.  The model holds it as the fraction n/d in
\* lowest terms with d a power of two: doubling and halving are exact on it,
\* as they are on a binary float.
Bpm(n) == [n |-> n, d |-> 1]

Less(a, b) == a.n * b.d < b.n * a.d

Double(bpm) ==
    IF bpm.d > 1 THEN [bpm EXCEPT !.d = @ \div 2] ELSE [bpm EXCEPT !.n = @ * 2]

Halve(bpm) ==
    IF bpm.n % 2 = 0 THEN [bpm EXCEPT !.n = @ \div 2] ELSE [bpm EXCEPT !.d = @ * 2]

RECURSIVE WhileBelow(_)
\* while bpm < 100: bpm *= 2
WhileBelow(bpm) ==
    IF Less(bpm, Bpm(100)) THEN WhileBelow(Double(bpm)) ELSE bpm

RECURSIVE WhileAbove(_)
\* while bpm > 200: bpm /= 2
WhileAbove(bpm) ==
    IF Less(Bpm(200), bpm) THEN WhileAbove(Halve(bpm)) ELSE bpm

normalize_bpm(bpm) == WhileAbove(WhileBelow(bpm))

\* 0.96 <= ratio * mult <= 1.04 for mult in [1.0, 2.0, 0.5], ratio = a / b,
\* computed on the fractions (mult is num/den below).
bpm_similar(a, b) ==
    /\ b.n # 0
    /\ \E mult \in {<<1, 1>>, <<2, 1>>, <<1, 2>>} :
          LET num == a.n * b.d * mult[1]
              den == b.n * a.d * mult[2]
          IN  96 * den <= 100 * num /\ 100 * num <= 104 * den

\* round(x) of Python 3 on the fraction num/den: to the nearest integer, a
\* half going to the even neighbour.
round(num, den) ==
    LET q == num \div den
        r == num % den
    IN  IF 2 * r < den THEN q
        ELSE IF 2 * r > den THEN q + 1
        ELSE IF q % 2 = 0 THEN q ELSE q + 1

\* The weight a candidate enters the consensus with: conf_cnn * 3.0,
\* conf_multi * 0.7, conf_degara * 0.7, conf_loop, 0.6.
Weighted(src, conf) ==
    CASE src = "cnn" -> conf * 3
      [] src \in {"multi", "degara"} -> (conf * 7) \div 10
      [] OTHER -> conf

IsCandidate(c) == c.bpm.n > 0

\* candidates: one entry per estimator whose BPM is > 0, in collection order.
Candidates(est) ==
    SelectSeq([i \in 1..Len(Estimators) |->
                   [bpm  |-> Bpm(est[Estimators[i]].bpm),
                    conf |-> Weighted(Estimators[i], est[Estimators[i]].conf),
                    src  |-> Estimators[i]]],
              IsCandidate)

Normalized_Raw(candidates) == candidates

\* normalized = [(normalize_bpm(bpm), conf, src) for bpm, conf, src in candidates]
Normalized(candidates) ==
    [i \in 1..Len(candidates) |->
        [candidates[i] EXCEPT !.bpm = normalize_bpm(@)]]

RECURSIVE Sum(_, _)
Sum(f, S) ==
    IF S = {} THEN 0
    ELSE LET x == CHOOSE y \in S : TRUE IN f[x] + Sum(f, S \ {x})

\* Each candidate scored by its own weighted confidence alone.
Scored_NoBonus(normalized) ==
    [i \in 1..Len(normalized) |->
        [bpm       |-> normalized[i].bpm,
         agreement |-> normalized[i].conf,
         src       |-> normalized[i].src]]


\* agreement = conf_i + sum of conf_j * 0.3 over the other candidates j whose
\* BPM is similar to candidate i's.
Scored(normalized) ==
    [i \in 1..Len(normalized) |->
        LET bonus == [j \in 1..Len(normalized) |-> (normalized[j].conf * 3) \div 10]
            similar == {j \in 1..Len(normalized) :
                           j # i /\ bpm_similar(normalized[i].bpm, normalized[j].bpm)}
        IN  [bpm       |-> normalized[i].bpm,
             agreement |-> normalized[i].conf + Sum(bonus, similar),
             src       |-> normalized[i].src]]

Best_First(scored) == 1

\* scored.sort(key=lambda x: x[1], reverse=True); scored[0]: the sort is
\* stable, so among equal scores the first collected candidate comes first.
Best(scored) ==
    CHOOSE i \in 1..Len(scored) :
        /\ \A j \in 1..Len(scored) : scored[j].agreement <= scored[i].agreement
        /\ \A j \in 1..(i - 1) : scored[j].agreement < scored[i].agreement

Minimum_NoCap(a, b) == b

\* min(1.0, best_score / 3.0)
Minimum(a, b) == IF a < b THEN a ELSE b

DefaultFallback_Silent == [bpm |-> 0, confidence |-> 0]

\* if not candidates: return 120.0, 0.0, 0, None
DefaultFallback == [bpm |-> 120, confidence |-> 0]

\* _extract_rhythm from the estimators' answers on: the BPM and the
\* confidence it returns (the confidence in thousandths, as round(..., 3)
\* leaves it).  The beat count and the beat offset are not modelled.
extract_rhythm(est) ==
    LET candidates == Candidates(est)
    IN  IF candidates = <<>>
        THEN DefaultFallback
        ELSE LET scored == Scored(Normalized(candidates))
                 best   == scored[Best(scored)]
             IN  [bpm        |-> round(best.bpm.n, best.bpm.d),
                  confidence |-> Minimum(1000, round(best.agreement, 3))]

ExtractRhythm ==
    /\ estimates # <<>>
    /\ rhythm = <<>>
    /\ rhythm' = extract_rhythm(estimates)
    /\ UNCHANGED <<catalog, batch_vars, api_vars, chain_vars, estimates,
                   beat_events, drop_vars, highlight_vars, lock_vars,
                   search_vars>>

\* One call of _extract_rhythm, on any answers of the five estimators of
\* which at most MaxEstimators gave a BPM.
InitRhythm ==
    /\ InitBatch
    /\ catalog = [t \in Tracks |-> NoRow]
    /\ chain = NoChain
    /\ temp_file = FALSE
    /\ rhythm = <<>>
    /\ NoDrop
    /\ NoHighlight
    /\ NoLock
    /\ NoSearch
    /\ \E cnn \in EstimatorOutputs("cnn"), multi \in EstimatorOutputs("multi"),
          degara \in EstimatorOutputs("degara"), loop_bpm \in EstimatorOutputs("loop"),
          beats \in EstimatorOutputs("beats") :
          /\ estimates = [cnn |-> cnn, multi |-> multi, degara |-> degara,
                          loop |-> loop_bpm, beats |-> beats]
          /\ Cardinality({i \in 1..Len(Estimators) :
                             estimates[Estimators[i]] # NoEstimate}) <= MaxEstimators
    /\ beat_events \in BeatPatterns(estimates.beats)

SpecRhythm == InitRhythm /\ [][ExtractRhythm]_vars

\* ------------------------------------------ analyzer.py: the downbeat detector
\* Times are whole numbers of ticks of 0.1 ms (10000 ticks to the second); a
\* beat offset, which the code rounds to three decimals, is a whole number of
\* milliseconds.  An optional float is a record: None, or Some(ms).
None == [none |-> TRUE, ms |-> 0]

Some(ms) == [none |-> FALSE, ms |-> ms]

\* int(seconds * SAMPLE_RATE): ticks * SAMPLE_RATE / 10000, with a factor 100
\* taken out of both (SAMPLE_RATE is a multiple of 100).
Samples(ticks) == (ticks * (SAMPLE_RATE \div 100)) \div 100

\* What a call of the detector is made on.
\*   bpm: the (whole) BPM handed in;  highlight_time: in ticks;
\*   audio: the length of full_audio in ticks;
\*   raises: whether a step inside the try block raises;
\*   beats, first, spacing: BeatTrackerMultiFeature finds `beats` beats, the
\*     first at `first` ticks into the segment, `spacing` ticks apart;
\*   energy: the bass energy of the beats, repeating every four beats;
\*   rhythm_beats: the beats of RhythmExtractor2013 (the first one at most).
BpmInputs == {120, 128}

HighlightTimes == {0, 300000, 580000}

\* len(full_audio) / SAMPLE_RATE, in ticks: 3 s and 60 s.
AudioLengths == {30000, 600000}

FirstBeats == {100, 2000, 4686, 4997}

Spacings == {2500, 4688, 5000}

EnergyPatterns ==
    {<<10, 10, 10, 10>>, <<10, 20, 10, 10>>, <<100, 95, 100, 98>>, <<0, 0, 0, 0>>}

BeatCounts == (MinBeats - 1)..MaxBeats

DropInputs ==
    [bpm : BpmInputs, highlight_time : HighlightTimes, audio : AudioLengths,
     raises : BOOLEAN,
     beats : BeatCounts, first : FirstBeats, spacing : Spacings,
     energy : EnergyPatterns,
     rhythm_beats : {<<>>} \cup {<<t>> : t \in FirstBeats}]

\* drop_start = max(0, highlight_time - 1.0)
drop_start(d) ==
    IF d.highlight_time - 10000 > 0 THEN d.highlight_time - 10000 ELSE 0

\* drop_end = min(len(full_audio) / SAMPLE_RATE, highlight_time + 20.0)
drop_end(d) == Minimum(d.audio, d.highlight_time + 200000)

\* len(full_audio[start_sample:end_sample])
SegmentSamples(d) ==
    LET n == Samples(drop_end(d)) - Samples(drop_start(d))
    IN  IF n > 0 THEN n ELSE 0

\* The beat times the tracker returns, in ticks from the segment's start.
BeatTimes(d) == [k \in 1..d.beats |-> d.first + (k - 1) * d.spacing]

\* _compute_bass_energy of the window around the k-th beat.
BassEnergy(d, k) == d.energy[((k - 1) % 4) + 1]

\* window_samples = int(0.03 * SAMPLE_RATE)
window_samples == (3 * SAMPLE_RATE) \div 100

HasWindow(d, t) ==
    /\ Samples(t) - window_samples >= 0
    /\ Samples(t) + window_samples < SegmentSamples(d)

RECURSIVE Collect(_, _, _)
\* bass_energies: (beat_time, bass_energy) of the beats among the first 32
\* whose 30 ms window lies inside the segment.
Collect(d, k, last) ==
    IF k > last THEN <<>>
    ELSE (IF HasWindow(d, BeatTimes(d)[k])
          THEN <<[time |-> BeatTimes(d)[k], energy |-> BassEnergy(d, k)]>>
          ELSE <<>>) \o Collect(d, k + 1, last)

bass_energies(d) == Collect(d, 1, Minimum(d.beats, 32))

\* beat_interval = 60.0 / bpm is 600000 / bpm ticks, so t % beat_interval is
\* ((t * bpm) % 600000) / bpm ticks; round(..., 3) takes that to the nearest
\* millisecond (10 ticks).
RoundedPhase(t, bpm) == round((t * bpm) % 600000, 10 * bpm)

\* position = round(beats_from_first) % 4
\*   with beats_from_first = (beat_time - first_beat_time) / beat_interval
Position(d, t, first_beat_time) ==
    round((t - first_beat_time) * d.bpm, 600000) % 4

\* position_energies[position], positions numbered 0..3.
position_energies(d, position) ==
    LET all == bass_energies(d)
        At(b) == Position(d, b.time, all[1].time) = position
    IN  SelectSeq(all, At)

\* avg_energies[position] as the fraction sum/count (0.0 for an empty list).
avg_energies(d, position) ==
    LET list == position_energies(d, position)
        e == [i \in 1..Len(list) |-> list[i].energy]
    IN  IF list = <<>> THEN [sum |-> 0, count |-> 1]
        ELSE [sum |-> Sum(e, 1..Len(list)), count |-> Len(list)]

MeanLess(a, b) == a.sum * b.count < b.sum * a.count

\* int(np.argmax(avg_energies)): the first position with the highest mean.
ArgMax(d) ==
    CHOOSE p \in 0..3 :
        /\ \A q \in 0..3 : ~MeanLess(avg_energies(d, p), avg_energies(d, q))
        /\ \A q \in 0..(p - 1) : MeanLess(avg_energies(d, q), avg_energies(d, p))

ArgMin(d) ==
    CHOOSE p \in 0..3 :
        \A q \in 0..3 : ~MeanLess(avg_energies(d, q), avg_energies(d, p))

\* max_energy > 0 and (max_energy - min_energy) / max_energy > 0.1
Meaningful(d) ==
    LET max_energy == avg_energies(d, ArgMax(d))
        min_energy == avg_energies(d, ArgMin(d))
    IN  /\ max_energy.sum > 0
        /\ 10 * (max_energy.sum * min_energy.count - min_energy.sum * max_energy.count)
              > max_energy.sum * min_energy.count

\* Position 0 whatever the energies.
downbeat_position_Zero(d) == 0

\* downbeat_position: int(np.argmax(avg_energies)) if the energies differ
\* enough, else 0.
downbeat_position(d) == IF Meaningful(d) THEN ArgMax(d) ELSE 0

\* if len(drop_segment) < SAMPLE_RATE * 4
TooShort(d) == SegmentSamples(d) < SAMPLE_RATE * 4

TooFewBeats_Never(d) == FALSE

\* if len(beats) < 8
TooFewBeats(d) == d.beats < MinBeats

\* _extract_beat_offset_from_drop(full_audio, highlight_time, bpm)
extract_beat_offset_from_drop(d) ==
    IF d.raises THEN None
    ELSE IF TooShort(d) THEN None
    ELSE IF TooFewBeats(d) THEN None
    ELSE IF Len(bass_energies(d)) < MinBeats
         THEN Some(RoundedPhase(BeatTimes(d)[1] + drop_start(d), d.bpm))
    ELSE IF position_energies(d, downbeat_position(d)) # <<>>
         THEN Some(RoundedPhase(position_energies(d, downbeat_position(d))[1].time
                                + drop_start(d), d.bpm))
    ELSE Some(RoundedPhase(BeatTimes(d)[1] + drop_start(d), d.bpm))

\* A call of the detector returns (analyzer.py 814, 818, 871, 875).
DetectorReturns ==
    /\ drop # <<>>
    /\ beat_offset = <<>>
    /\ beat_offset' = [by |-> "detector", value |-> extract_beat_offset_from_drop(drop)]
    /\ UNCHANGED <<catalog, batch_vars, api_vars, chain_vars, rhythm_vars, drop, highlight_vars,
                   lock_vars, search_vars>>

\* _extract_rhythm, last fallback: if beat_offset is None and len(beats) > 0:
\*     beat_offset = round(first_beat % beat_interval, 3)
LastFallback ==
    /\ beat_offset # <<>>
    /\ beat_offset.by = "detector"
    /\ beat_offset.value = None
    /\ Len(drop.rhythm_beats) > 0
    /\ beat_offset' = [by |-> "first_beat",
                       value |-> Some(RoundedPhase(drop.rhythm_beats[1], drop.bpm))]
    /\ UNCHANGED <<catalog, batch_vars, api_vars, chain_vars, rhythm_vars, drop, highlight_vars,
                   lock_vars, search_vars>>

DropNext ==
    \/ DetectorReturns
    \/ LastFallback

InitDrop ==
    /\ InitBatch
    /\ catalog = [t \in Tracks |-> NoRow]
    /\ chain = NoChain
    /\ temp_file = FALSE
    /\ NoRhythm
    /\ NoHighlight
    /\ NoLock
    /\ NoSearch
    /\ beat_offset = <<>>
    /\ drop \in DropInputs

SpecDrop == InitDrop /\ [][DropNext]_vars

\* ----------------------------------------- analyzer.py: the highlight finder
\* Audio is counted in samples.  Times are whole numbers of half samples
\* (1 / (2 * SAMPLE_RATE) s): duration / 2 of any audio, half a second and a
\* hundredth of a second (SAMPLE_RATE is a multiple of 50) are all whole.
Seconds(s) == s * 2 * SAMPLE_RATE

\* What a call is made on: the length of the audio, segment_duration (the
\* whole number of seconds of settings.audio_duration_seconds), how many
\* frames FrameGenerator cuts, and where among the segment scores the highest
\* one is.
AudioSamples ==
    {0, 1, SAMPLE_RATE, 30 * SAMPLE_RATE - 1, 30 * SAMPLE_RATE,
     30 * SAMPLE_RATE + 1, 45 * SAMPLE_RATE - 1, 45 * SAMPLE_RATE,
     45 * SAMPLE_RATE + 1, 46 * SAMPLE_RATE + 111, 100 * SAMPLE_RATE + 12345}

SegmentDurations == {30, 45}

BestPlaces == {"first", "middle", "last"}

\* hop_size = SAMPLE_RATE // 2
hop_size == SAMPLE_RATE \div 2

\* One frame per hop; the last, partly filled one depends on the library.
FrameCounts(samples) == {samples \div hop_size, samples \div hop_size + 1}

HighlightInputs ==
    {a \in [samples : AudioSamples, segment_duration : SegmentDurations,
            frames : UNION {FrameCounts(n) : n \in AudioSamples},
            best : BestPlaces] :
        a.frames \in FrameCounts(a.samples)}

\* duration = len(audio) / SAMPLE_RATE
duration(a) == 2 * a.samples

IsShort_Never(a) == FALSE

\* if duration <= segment_duration
IsShort(a) == duration(a) <= Seconds(a.segment_duration)

\* window_frames = min(int(segment_duration / (hop_size / SAMPLE_RATE)), len(energies))
window_frames(a) == Minimum((a.segment_duration * SAMPLE_RATE) \div hop_size, a.frames)

\* best_idx = np.argmax(segment_scores), one of range(len(energies) - window_frames + 1)
best_idx(a) ==
    LET last == a.frames - window_frames(a)
    IN  CASE a.best = "first" -> 0
          [] a.best = "middle" -> last \div 2
          [] a.best = "last" -> last

Maximum(a, b) == IF a < b THEN b ELSE a

\* center_time = max(half_segment, min(duration - half_segment, center_time))
center_time(a) ==
    LET half_segment == Seconds(a.segment_duration) \div 2
        start_time == best_idx(a) * hop_size * 2
    IN  Maximum(half_segment,
                Minimum(duration(a) - half_segment, start_time + half_segment))

\* audio[first:last]: a slice is cut to the samples there are.
Slice(a, first, last) ==
    LET lo == Minimum(Maximum(first, 0), a.samples)
        hi == Minimum(Maximum(last, 0), a.samples)
    IN  [first |-> lo, last |-> Maximum(lo, hi)]

\* The times of lines 229-233 are doubles.  len(audio) / SAMPLE_RATE is a
\* rounded quotient unless the audio is a whole number of half seconds long,
\* so when the clamp takes duration - half_segment the two products
\* (center_time -+ half_segment) * SAMPLE_RATE can fall just under the whole
\* number of samples they stand for, and int() cuts them to the sample before.
\* What IEEE double arithmetic makes of the lengths of AudioSamples (every
\* other time of the function is a whole number of half seconds and exact):
float_loss(a) ==
    LET over == a.samples - a.segment_duration * SAMPLE_RATE
    IN  CASE a.segment_duration = 30 /\ over = 1 -> [first |-> 1, last |-> 0]
          [] a.segment_duration = 30 /\ over = 15 * SAMPLE_RATE - 1
                -> [first |-> 1, last |-> 1]
          [] over = (46 - a.segment_duration) * SAMPLE_RATE + 111
                -> [first |-> 1, last |-> 0]
          [] OTHER -> [first |-> 0, last |-> 0]

\* int((center_time -+ half_segment) * SAMPLE_RATE)
start_sample(a) ==
    LET half_segment == Seconds(a.segment_duration) \div 2
        exact == (center_time(a) - half_segment) \div 2
    IN  IF center_time(a) = duration(a) - half_segment
        THEN exact - float_loss(a).first ELSE exact

end_sample(a) ==
    LET half_segment == Seconds(a.segment_duration) \div 2
        exact == (center_time(a) + half_segment) \div 2
    IN  IF center_time(a) = duration(a) - half_segment
        THEN exact - float_loss(a).last ELSE exact

\* _find_highlight_and_extract(audio, segment_duration): the sample range of
\* the segment returned and highlight_time (in half samples).
find_highlight_and_extract(a) ==
    LET half_segment == Seconds(a.segment_duration) \div 2
    IN  IF IsShort(a)
        THEN [segment |-> Slice(a, 0, a.samples), highlight_time |-> duration(a) \div 2]
        ELSE IF a.frames = 0 \/ a.frames - window_frames(a) + 1 <= 0
        THEN [segment |-> Slice(a, 0, a.segment_duration * SAMPLE_RATE),
              highlight_time |-> half_segment]
        ELSE [segment |-> Slice(a, start_sample(a), end_sample(a)),
              \* round(center_time, 2): to the nearest hundredth of a second
              highlight_time |-> round(center_time(a), SAMPLE_RATE \div 50)
                                     * (SAMPLE_RATE \div 50)]

FindHighlight ==
    /\ full_audio # <<>>
    /\ highlight = <<>>
    /\ highlight' = find_highlight_and_extract(full_audio)
    /\ UNCHANGED <<catalog, batch_vars, api_vars, chain_vars, rhythm_vars,
                   drop_vars, full_audio, lock_vars, search_vars>>

InitHighlight ==
    /\ InitBatch
    /\ catalog = [t \in Tracks |-> NoRow]
    /\ chain = NoChain
    /\ temp_file = FALSE
    /\ NoRhythm
    /\ NoDrop
    /\ NoLock
    /\ NoSearch
    /\ highlight = <<>>
    /\ full_audio \in HighlightInputs

SpecHighlight == InitHighlight /\ [][FindHighlight]_vars

\* ------------------------------------------------------------ _progress_lock
\* The coroutines of one process that take _progress_lock (a threading.Lock),
\* followed from one await, lock operation or return to the next: the batch
\* tasks of the service, or the tasks and the spinner of
\* scripts/analyze_all_tracks.py.
Coroutines == 1..MaxCoroutines

\* with _progress_lock: __enter__, the statements of the block, __exit__
LockBlock == <<"acquire", "memory", "release">>

\* The catalog write awaited inside the block.
WriteThenCount_Locked == <<"acquire", "await", "memory", "release">>

\* await update_track_analysis(...) or await update_track_status(..., FAILED),
\* then the counters under the lock.
WriteThenCount == <<"await">> \o LockBlock

\* batch.py analyze_single_track_streaming: the status update, the transfer
\* permit, the stream, then either the analyze permit and the analysis thread
\* or the fallback download that raises; the write and the counters; return.
analyze_single_track_streaming(outcome) ==
    <<"await", "await", "await">>
        \o (IF outcome = "success" THEN <<"await", "thread">> ELSE <<"await">>)
        \o WriteThenCount \o <<"return">>

\* scripts/analyze_all_tracks.py analyze_track: register_task, start_track,
\* the status update, update_task, the download permit, update_task, the
\* download; then update_task, the analyze permit, the analysis thread and
\* update_task, or the download raising; the write and finish_track;
\* unregister_task in the finally block.
analyze_track_cli(outcome) ==
    LockBlock \o LockBlock \o <<"await">> \o LockBlock \o <<"await">>
        \o LockBlock \o <<"await">>
        \o (IF outcome = "success"
            THEN LockBlock \o <<"await", "thread">> \o LockBlock
            ELSE <<>>)
        \o WriteThenCount \o LockBlock \o <<"return">>

\* spinner_task: print_progress_display (its own block, then get_eta's), then
\* asyncio.sleep.
spinner_task == LockBlock \o LockBlock \o <<"await", "return">>

CoroutineKinds(process) ==
    IF process = "service"
    THEN {"analyze_single_track_streaming"} \X {"success", "failure"}
    ELSE ({"analyze_track"} \X {"success", "failure"})
            \cup {<<"spinner_task", "success">>}

Program(kind, outcome) ==
    CASE kind = "analyze_single_track_streaming" -> analyze_single_track_streaming(outcome)
      [] kind = "analyze_track" -> analyze_track_cli(outcome)
      [] kind = "spinner_task" -> spinner_task

Token(w) == Program(coroutine[w].kind, coroutine[w].outcome)[coroutine[w].pc]

\* The analysis thread reports its progress through on_analysis_progress only
\* in the script; the service passes no callback.
HasCallback(w) == coroutine[w].kind = "analyze_track"

\* The lock holder that stands for the analysis thread of coroutine w.
ThreadOf(w) == MaxCoroutines + w

\* What no step of these coroutines touches.
other_vars == <<catalog, batch_vars, api_vars, chain_vars, rhythm_vars,
                drop_vars, highlight_vars, search_vars>>

Advance(w, st) ==
    coroutine' = [coroutine EXCEPT ![w].pc = @ + 1, ![w].st = st]

\* The event loop picks a coroutine that is ready to run.
Resume(w) ==
    /\ coroutine # <<>>
    /\ running = 0
    /\ coroutine[w].st = "suspended"
    /\ running' = w
    /\ coroutine' = [coroutine EXCEPT ![w].st = "running"]
    /\ UNCHANGED <<progress_lock, thread, other_vars>>

\* An await expression: the coroutine is suspended, the event loop is free.
Await(w) ==
    /\ running = w
    /\ Token(w) = "await"
    /\ Advance(w, "suspended")
    /\ running' = 0
    /\ UNCHANGED <<progress_lock, thread, other_vars>>

\* await asyncio.to_thread(analyze_audio...): suspended until the thread ends.
ToThread(w) ==
    /\ running = w
    /\ Token(w) = "thread"
    /\ Advance(w, "in_thread")
    /\ thread' = [thread EXCEPT ![w] = "running"]
    /\ running' = 0
    /\ UNCHANGED <<progress_lock, other_vars>>

\* Lock.acquire(): blocks the calling thread until the lock is free.
Acquire(w) ==
    /\ running = w
    /\ Token(w) = "acquire"
    /\ progress_lock = 0
    /\ progress_lock' = w
    /\ Advance(w, "running")
    /\ UNCHANGED <<thread, running, other_vars>>

\* The statements of the block: counters and display table, in memory.
Memory(w) ==
    /\ running = w
    /\ Token(w) = "memory"
    /\ Advance(w, "running")
    /\ UNCHANGED <<progress_lock, thread, running, other_vars>>

Release(w) ==
    /\ running = w
    /\ Token(w) = "release"
    /\ progress_lock' = 0
    /\ Advance(w, "running")
    /\ UNCHANGED <<thread, running, other_vars>>

CoroutineReturns(w) ==
    /\ running = w
    /\ Token(w) = "return"
    /\ coroutine' = [coroutine EXCEPT ![w].st = "ended"]
    /\ running' = 0
    /\ UNCHANGED <<progress_lock, thread, other_vars>>

\* on_analysis_progress -> update_task, called in the analysis thread.
ThreadAcquire(w) ==
    /\ coroutine # <<>>
    /\ thread[w] = "running"
    /\ HasCallback(w)
    /\ progress_lock = 0
    /\ progress_lock' = ThreadOf(w)
    /\ thread' = [thread EXCEPT ![w] = "callback"]
    /\ UNCHANGED <<coroutine, running, other_vars>>

ThreadRelease(w) ==
    /\ coroutine # <<>>
    /\ thread[w] = "callback"
    /\ progress_lock' = 0
    /\ thread' = [thread EXCEPT ![w] = "running"]
    /\ UNCHANGED <<coroutine, running, other_vars>>

\* analyze_audio returns or raises: the coroutine can be resumed.
ThreadEnds(w) ==
    /\ coroutine # <<>>
    /\ thread[w] = "running"
    /\ thread' = [thread EXCEPT ![w] = "none"]
    /\ coroutine' = [coroutine EXCEPT ![w].st = "suspended"]
    /\ UNCHANGED <<progress_lock, running, other_vars>>

LockNext ==
    \E w \in Coroutines :
        \/ Resume(w)
        \/ Await(w)
        \/ ToThread(w)
        \/ Acquire(w)
        \/ Memory(w)
        \/ Release(w)
        \/ CoroutineReturns(w)
        \/ ThreadAcquire(w)
        \/ ThreadRelease(w)
        \/ ThreadEnds(w)

\* gather has created the coroutines; none has run yet.
InitLock ==
    /\ InitBatch
    /\ catalog = [t \in Tracks |-> NoRow]
    /\ chain = NoChain
    /\ temp_file = FALSE
    /\ NoRhythm
    /\ NoDrop
    /\ NoHighlight
    /\ NoSearch
    /\ progress_lock = 0
    /\ running = 0
    /\ thread = [w \in Coroutines |-> "none"]
    /\ \E process \in {"service", "script"} :
        \E kinds \in [Coroutines -> CoroutineKinds(process)] :
            coroutine = [w \in Coroutines |->
                            [kind |-> kinds[w][1], outcome |-> kinds[w][2],
                             pc |-> 1, st |-> "suspended"]]

SpecLock == InitLock /\ [][LockNext]_vars

\* ------------------------------------------- downloader.py: _search_youtube
\* One JSON line of yt-dlp's output: its "duration" in seconds (0 when the
\* key is missing or 0, null when the value is null) and whether it has an
\* "id".
Durations == {0, 190, 200, 210, 230, 231}

Videos ==
    [duration : Durations, has_id : BOOLEAN, null : {FALSE}]
        \cup {[duration |-> 0, has_id |-> TRUE, null |-> TRUE]}

ExpectedDurations == {200000, 200500}

\* What subprocess.run gives: the lines of its output, or TimeoutExpired, or
\* a non-zero return code.
SearchInputs ==
    [run : {"output"}, expected_duration_ms : ExpectedDurations,
     videos : UNION {[1..n -> Videos] : n \in 0..MaxVideos}]
        \cup [run : {"TimeoutExpired", "returncode"},
              expected_duration_ms : ExpectedDurations, videos : {<<>>}]

Abs(x) == IF x < 0 THEN -x ELSE x

\* abs(duration - expected_sec), in milliseconds
Diff(video, expected_duration_ms) ==
    Abs(video.duration * 1000 - expected_duration_ms)

\* best_diff starts at float('inf'), written -1 here.
Closer(diff, best_diff) == best_diff = -1 \/ diff < best_diff

\* The for loop over the lines from line i on: best_match is the index of the
\* line whose id made the URL (0 for None).  A null duration is not 0, and
\* abs(None - expected_sec) raises a TypeError that nothing catches.
RECURSIVE ScanVideos(_, _, _, _, _)
ScanVideos(videos, i, expected_duration_ms, best_match, best_diff) ==
    IF i > Len(videos) THEN [raised |-> FALSE, url |-> best_match]
    ELSE LET video == videos[i]
             diff == Diff(video, expected_duration_ms)
         IN  IF video.null THEN [raised |-> TRUE, url |-> 0]
             ELSE IF video.duration = 0
             THEN ScanVideos(videos, i + 1, expected_duration_ms,
                             best_match, best_diff)
             ELSE IF diff <= tolerance * 1000 /\ Closer(diff, best_diff)
             THEN ScanVideos(videos, i + 1, expected_duration_ms,
                             IF video.has_id THEN i ELSE best_match, diff)
             ELSE ScanVideos(videos, i + 1, expected_duration_ms,
                             best_match, best_diff)

search_youtube_sync(s) ==
    IF s.run # "output" \/ s.videos = <<>>
    THEN [raised |-> FALSE, url |-> 0]
    ELSE ScanVideos(s.videos, 1, s.expected_duration_ms, 0, -1)

SearchYoutube ==
    /\ search # <<>>
    /\ found = <<>>
    /\ found' = search_youtube_sync(search)
    /\ UNCHANGED <<catalog, batch_vars, api_vars, chain_vars, rhythm_vars,
                   drop_vars, highlight_vars, lock_vars, search>>

InitSearch ==
    /\ InitBatch
    /\ catalog = [t \in Tracks |-> NoRow]
    /\ chain = NoChain
    /\ temp_file = FALSE
    /\ NoRhythm
    /\ NoDrop
    /\ NoHighlight
    /\ NoLock
    /\ found = <<>>
    /\ search \in SearchInputs

SpecSearch == InitSearch /\ [][SearchYoutube]_vars

\* Scheduling: the event loop runs every runnable coroutine; a task queued on
\* a semaphore is woken whenever a permit is released.
FairSpec ==
    /\ Spec
    /\ \A r \in Runs : WF_vars(ProcessBatchStart(r))
    /\ \A r \in Runs : WF_vars(TasksBegin(r))
    /\ \A r \in Runs : WF_vars(GatherReturns(r))
    /\ \A t \in Tracks : SF_vars(TaskStep(t))

\* ================================================================== claims
ActiveRuns == {r \in Runs : loop[r].pc # "none"}
InFlight(t) == task[t].pc \notin {"none", "done"}
InTransfer == {t \in Tracks : task[t].pc \in {"streaming", "fallback"}}
InAnalyze == {t \in Tracks : task[t].pc = "analyzing"}
Ended(t) == task[t].pc = "done"

\* C1: at most one process_batch_analysis invocation is scheduled or running
\* at any time; a POST /analyze/batch handled while is_running is true is
\* answered "already_running" and starts no invocation, and the auto-start
\* that finds is_running true starts none either.
C1_SingleFlight ==
    [][ /\ Cardinality(ActiveRuns') <= 1
        /\ (batch_state.is_running /\ response' # response)
              => (response' = "already_running" /\ loop' = loop)
        /\ (batch_state.is_running /\ auto' # auto) => loop' = loop ]_vars

C1_Witness ==
    /\ response = "already_running"
    /\ auto = "past the check"
    /\ batch_state.is_running
    /\ \E r \in Runs : loop[r].pc = "gather"

\* C2: every started batch run eventually returns to idle, in both selection
\* modes, when every task terminates and nothing inserts tracks.
C2_RunReturnsToIdle ==
    batch_state.is_running ~> ~batch_state.is_running

\* C3: a task that ended without success has left its track in status failed
\* with a reason, whatever the row (null title or artist included).
C3_FailureIsRecorded ==
    \A t \in Tracks :
        (Ended(t) /\ task[t].result # "true")
            => /\ catalog[t].analysis_status = "failed"
               /\ catalog[t].analysis_error # "none"

\* C4: a task that fails neither stops the invocation it belongs to nor ends
\* a sibling: the loop leaves gather only when every task of the round has
\* ended, every task that exists belongs to a live invocation, and an
\* invocation ends only through a re-query that finds nothing, resetting
\* is_running.
C4_FailureIsolation ==
    [][ /\ \A t \in Tracks :
              task'[t].pc # "none"
                  => loop'[task'[t].run].pc \in {"launched", "gather"}
        /\ \A r \in ActiveRuns :
              /\ (loop[r].pc = "gather" /\ loop'[r].pc # "gather")
                    => \A t \in loop[r].tracks : Ended(t)
              /\ (\E t \in loop[r].tracks :
                     ~Ended(t) /\ task'[t].result \in {"false", "raised"})
                    => (loop'[r].pc \in {"launched", "gather"}
                        /\ batch_state'.is_running)
              /\ (loop[r].pc \in {"launched", "gather"} /\ loop'[r].pc = "none")
                    => (~batch_state'.is_running
                        /\ Selected(batch_include_failed)' = {}) ]_vars

C4_Witness ==
    \E t, u, v \in Tracks :
        /\ task[t].result = "raised"
        /\ task[u].result = "false"
        /\ task[v].result = "true"

\* C5: at most 3 x max_concurrent_analyses tasks are in the transfer phase and
\* at most max_concurrent_analyses in the analyze phase; the two semaphores of
\* an invocation account for exactly the permits its tasks hold, through all
\* its rounds.
C5_PermitBounds ==
    /\ Cardinality(InTransfer) <= TransferFactor * MaxConcurrentAnalyses
    /\ Cardinality(InAnalyze) <= MaxConcurrentAnalyses
    /\ \A r \in ActiveRuns :
          /\ loop[r].dl + Cardinality({t \in Tracks :
                 task[t].run = r /\ "transfer" \in task[t].held}) = max_downloads
          /\ loop[r].an + Cardinality({t \in Tracks :
                 task[t].run = r /\ "analyze" \in task[t].held}) = max_analyses

C5_Witness ==
    /\ Cardinality(InTransfer) = TransferFactor * MaxConcurrentAnalyses
    /\ \E t \in Tracks : task[t].pc = "wait_transfer"
    /\ \E r \in Runs : loop[r].pc = "gather" /\ loop[r].dl = 0

\* C6: the phases of a task come in the order acquire transfer, stream,
\* (fallback,) release transfer, acquire analyze, analyze, release analyze,
\* persist; a task never holds both permits, and it holds none when it writes
\* its result.
PhasesDirect ==
    <<"acquire_transfer", "stream", "release_transfer",
      "acquire_analyze", "analyze">>
PhasesFallback ==
    <<"acquire_transfer", "stream", "fallback", "release_transfer",
      "acquire_analyze", "analyze">>
IsPrefix(a, b) == Len(a) <= Len(b) /\ a = SubSeq(b, 1, Len(a))

C6_PhaseOrder ==
    \A t \in Tracks :
        /\ IsPrefix(task[t].log, PhasesDirect)
              \/ IsPrefix(task[t].log, PhasesFallback)
        /\ Cardinality(task[t].held) <= 1
        /\ task[t].pc \in {"streaming", "fallback"} => task[t].held = {"transfer"}
        /\ task[t].pc = "analyzing"
              => (task[t].held = {"analyze"}
                  /\ task[t].log \in {PhasesDirect, PhasesFallback})
        /\ task[t].pc \in {"created", "wait_transfer", "wait_analyze", "done"}
              => task[t].held = {}
        /\ task[t].persist_held = {}

C6_Witness ==
    \E t, u \in Tracks :
        /\ task[t].pc = "analyzing" /\ task[t].log = PhasesFallback
        /\ task[u].pc = "done" /\ task[u].result = "true"
        /\ catalog[u].analysis_status = "completed"

\* C7: a task whose direct stream exceeded the timeout ends with its track in
\* status failed, reason "Timeout".
C7_StreamTimeoutMarksTimeout ==
    \A t \in Tracks :
        (Ended(t) /\ task[t].timed_out)
            => /\ catalog[t].analysis_status = "failed"
               /\ catalog[t].analysis_error = "Timeout"

\* C8: once the timeout has elapsed for a task, the task is no longer in
\* flight and holds no permit.
C8_NoTaskPastTimeout ==
    \A t \in Tracks :
        task[t].timed_out => (~InFlight(t) /\ task[t].held = {})

\* C9: analysis_status changes only along pending -> processing,
\* failed -> processing, processing -> completed and processing -> failed.
StatusChange(t) ==
    <<catalog[t].analysis_status, catalog'[t].analysis_status>>

SpecTransitions ==
    {<<"pending", "processing">>, <<"failed", "processing">>,
     <<"processing", "completed">>, <<"processing", "failed">>}

CodeTransitions ==
    SpecTransitions \cup
    {<<"completed", "processing">>, <<"completed", "failed">>,
     <<"failed", "completed">>}

get_batch_status == batch_state

C10_StatusTracksProgress ==
    \A r \in Runs :
        loop[r].pc = "gather" =>
            LET ended == {t \in loop[r].tracks : Ended(t)}
                ok == {t \in ended : task[t].result = "true"}
            IN  /\ get_batch_status.processed = Cardinality(ended)
                /\ get_batch_status.successful = Cardinality(ok)
                /\ get_batch_status.failed = Cardinality(ended \ ok)

\* C11: a POST /analyze/batch answered "already_running" leaves batch_state
\* (total_tracks, processed, successful, failed, is_running), the selection
\* mode and everything else of the running batch as they were.
C11_RejectedStartFrame ==
    [][ (response' = "already_running" /\ response' # response)
            => /\ batch_state.is_running
               /\ batch_state' = batch_state
               /\ batch_include_failed' = batch_include_failed
               /\ batch_stats' = batch_stats
               /\ loop' = loop /\ task' = task /\ catalog' = catalog ]_vars

C11_Witness ==
    /\ response = "already_running"
    /\ batch_state.is_running
    /\ batch_include_failed
    /\ batch_state.total_tracks > 0
    /\ \E t \in Tracks : task[t].result = "false"

\* The calls made so far, the one in progress included.
ChainCalls ==
    [i \in 1..Len(chain.log) |-> chain.log[i][1]]
        \o (IF chain.pc \in {"stream", "stream_file", "direct", "ytdlp",
                             "search", "youtube"}
            THEN <<chain.pc>> ELSE <<>>)

ChainCalled(stage) == \E i \in 1..Len(ChainCalls) : ChainCalls[i] = stage

ChainGave(stage, outcomes) ==
    \E i \in 1..Len(chain.log) :
        chain.log[i][1] = stage /\ chain.log[i][2] \in outcomes

\* C12: in a batch task a streamed payload under MIN_AUDIO_SIZE is never what
\* the analysis gets, and the call that follows its rejection is the generic
\* extractor (yt-dlp); a payload of at least MIN_AUDIO_SIZE bytes is accepted.
C12_SmallPayloadGoesToExtractor ==
    chain.path = "batch" =>
        /\ (chain.audio_bytes >= 0 /\ chain.audio_bytes < MIN_AUDIO_SIZE)
              => (chain.analyzed # "bytes" /\ ChainCalls[2] = "ytdlp")
        /\ (chain.audio_bytes >= MIN_AUDIO_SIZE) => chain.analyzed = "bytes"

\* C12 as amended: in a batch task a streamed payload under MIN_AUDIO_SIZE is
\* never what the analysis gets; its rejection is followed by the direct
\* download to a file, and by the generic extractor once that download has
\* given nothing; a payload of at least MIN_AUDIO_SIZE bytes is accepted and
\* no other source is called.
C12_SmallPayloadGoesToFallback ==
    chain.path = "batch" =>
        /\ (chain.audio_bytes >= 0 /\ chain.audio_bytes < MIN_AUDIO_SIZE)
              => /\ chain.analyzed # "bytes"
                 /\ ChainCalls[2] = "direct"
                 /\ ChainGave("direct", {"None"}) => ChainCalls[3] = "ytdlp"
        /\ (chain.audio_bytes >= MIN_AUDIO_SIZE)
              => (chain.analyzed = "bytes" /\ Len(ChainCalls) = 1)

C12_Witness ==
    /\ chain.path = "batch"
    /\ chain.log = <<<<"stream", "too small">>, <<"direct", "None">>>>
    /\ chain.audio_bytes = 500
    /\ chain.pc = "ytdlp"

\* C13: no failure of a stage aborts the chain: after the stream of a batch
\* task has failed the download is tried, after the direct download has failed
\* the generic extractor is tried, and after the generic extractor has failed
\* in any way the search is tried when title, artist and duration are known.
C13_NoStageAbortsTheChain ==
    /\ (chain.path = "batch"
          /\ ChainGave("stream", {"too small", "DownloadError", "TimeoutError"}))
          => (ChainCalled("direct") \/ ChainCalled("ytdlp"))
    /\ ChainGave("direct", {"None"}) => ChainCalled("ytdlp")
    /\ (HasMetadata(chain)
          /\ ChainGave("ytdlp", DownloadErrors \cup {"FileNotFoundError"}))
          => ChainCalled("search")

\* The stage of the spec each call belongs to.
StageOf(call) ==
    CASE call \in {"stream", "stream_file", "direct"} -> "direct-stream"
      [] call = "ytdlp" -> "generic extractor"
      [] OTHER -> "alternate-platform search"

StageOrder ==
    <<"direct-stream", "generic extractor", "alternate-platform search">>

CallOrder == <<"stream", "stream_file", "direct", "ytdlp", "search", "youtube">>

IndexIn(seq, x) == CHOOSE i \in 1..Len(seq) : seq[i] = x

ChainSucceeded == ChainGave("stream", {"bytes"}) \/ chain.audio_file

\* C14: the stages are attempted in the order direct-stream, generic
\* extractor, alternate-platform search, each at most once (the search and the
\* download of what it found are one stage), and none after a success.
C14_StagesInOrderOnce ==
    /\ \A i, j \in 1..Len(ChainCalls) :
          (i < j /\ ~(ChainCalls[i] = "search" /\ ChainCalls[j] = "youtube"))
              => IndexIn(StageOrder, StageOf(ChainCalls[i]))
                    < IndexIn(StageOrder, StageOf(ChainCalls[j]))
    /\ ChainSucceeded => Len(ChainCalls) = Len(chain.log)

\* C14 as amended: the calls are made in the order stream, direct download,
\* generic extractor, search, download of the match, each at most once and
\* none left out but the direct download without a client id; no call is made
\* after one has succeeded.
C14_CallsInOrderOnce ==
    /\ \A i, j \in 1..Len(ChainCalls) :
          i < j => IndexIn(CallOrder, ChainCalls[i])
                      < IndexIn(CallOrder, ChainCalls[j])
    /\ \A i \in 1..(Len(ChainCalls) - 1) :
          ChainCalls[i + 1] =
              CASE ChainCalls[i] = "stream" ->
                      IF chain.client_id THEN "direct" ELSE "ytdlp"
                [] ChainCalls[i] = "direct" -> "ytdlp"
                [] ChainCalls[i] = "ytdlp" -> "search"
                [] OTHER -> "youtube"
    /\ ChainSucceeded => Len(ChainCalls) = Len(chain.log)

C14_Witness ==
    /\ [i \in 1..Len(chain.log) |-> chain.log[i][1]]
          = <<"stream", "direct", "ytdlp", "search", "youtube">>
    /\ chain.log[5][2] = "file"
    /\ chain.pc = "done"
    /\ chain.result = "True"

\* C15: the search is issued only when title, artist and duration are all
\* known; when one is not, no search is issued and the chain has failed as
\* soon as the generic extractor has.
C15_SearchNeedsMetadata ==
    /\ ChainCalled("search")
          => (chain.title /\ chain.artist /\ chain.duration)
    /\ (~(chain.title /\ chain.artist /\ chain.duration)
          /\ ChainGave("ytdlp", DownloadErrors))
          => /\ chain.pc = "done"
             /\ chain.result = "False"
             /\ chain.log[Len(chain.log)][1] = "ytdlp"
             /\ catalog[ChainTrack].analysis_status = "failed"

C15_Witness ==
    /\ chain.path = "batch"
    /\ chain.title /\ chain.artist /\ ~chain.duration
    /\ ChainGave("ytdlp", {"CalledProcessError"})
    /\ chain.pc = "done"

\* C16: when a task that obtained a temporary file has ended, the file is gone
\* unless its removal failed, and a failing removal changes nothing of the
\* task's outcome.
C16_TempFileRemoved ==
    (chain.pc = "done" /\ chain.audio_file)
        => /\ chain.cleanup \in cleanup_audio_file
           /\ chain.cleanup = "removed" => ~temp_file
           /\ (chain.result = "True")
                 = (catalog[ChainTrack].analysis_status = "completed")

\* C17: the analysis gets streamed bytes only if there are at least
\* MIN_AUDIO_SIZE of them, in the batch task and in the full re-analysis.
C17_FloorBeforeAnalysis ==
    chain.analyzed = "bytes" => chain.audio_bytes >= MIN_AUDIO_SIZE

\* C18: a row in status completed has bpm, bpm_confidence, key,
\* key_confidence, highlight_time and the timestamp of the analysis written.
C18_CompletedHasResults ==
    \A t \in Tracks :
        catalog[t].analysis_status = "completed"
            => /\ {"bpm_detected", "bpm_confidence", "key_detected",
                   "key_confidence", "highlight_time"}
                      \subseteq catalog[t].columns
               /\ catalog[t].analyzed_at

\* ---------------------------------------------------------------- C19, C20
\* The BPM a call returned, when at least one estimator gave a candidate.
ConsensusBpm == rhythm.bpm

HadCandidates == rhythm # <<>> /\ Candidates(estimates) # <<>>

\* C19 (as stated): for every non-empty candidate set the returned BPM is
\* greater than 0 and lies in the half-open octave band [100, 200).
C19_BpmInOctaveBand ==
    HadCandidates => ConsensusBpm > 0 /\ 100 <= ConsensusBpm /\ ConsensusBpm < 200

\* C19 (amended): for every non-empty candidate set the returned BPM is an
\* integer greater than 0 in the closed band [100, 200].
C19_BpmInClosedBand ==
    HadCandidates =>
        ConsensusBpm \in Nat /\ ConsensusBpm > 0
        /\ 100 <= ConsensusBpm /\ ConsensusBpm <= 200

\* A call whose candidates lie below and above the band, the winner (the CNN's
\* 399, halved to 199.5) rounded to 200.
C19_Witness ==
    /\ HadCandidates
    /\ estimates.cnn = [bpm |-> 399, conf |-> 900]
    /\ estimates.multi.bpm = 64
    /\ ConsensusBpm = 200

\* The same estimators' answers with every BPM doubled.
Doubled(est) == [src \in DOMAIN est |-> [est[src] EXCEPT !.bpm = 2 * @]]

\* C20: doubling the BPM of every candidate, confidences and sources
\* unchanged, yields the same final BPM.
C20_OctaveInvariance ==
    HadCandidates => extract_rhythm(Doubled(estimates)).bpm = ConsensusBpm

\* ---------------------------------------------------------------------- C21
\* The normalized candidates of the call and their agreement scores.
NormalizedCandidates == Normalized(Candidates(estimates))

Agreements == Scored(NormalizedCandidates)

Returned(i) ==
    ConsensusBpm = round(NormalizedCandidates[i].bpm.n, NormalizedCandidates[i].bpm.d)

Others(i) == (1..Len(NormalizedCandidates)) \ {i}

\* C21 (as stated): a candidate whose weighted confidence is strictly greater
\* than every other candidate's is the one whose normalized, rounded BPM is
\* returned, whatever the other candidates' BPMs and agreements.
C21_DominantConfidenceWins ==
    HadCandidates =>
        \A i \in 1..Len(NormalizedCandidates) :
            (\A j \in Others(i) :
                NormalizedCandidates[j].conf < NormalizedCandidates[i].conf)
            => Returned(i)

\* C21 (amended): a candidate whose weighted confidence is strictly greater
\* than every other candidate's agreement score (that candidate's weighted
\* confidence plus 0.3 times the weighted confidence of each candidate similar
\* to it) is the one whose normalized, rounded BPM is returned.
C21_DominantOverAgreementWins ==
    HadCandidates =>
        \A i \in 1..Len(NormalizedCandidates) :
            (\A j \in Others(i) :
                Agreements[j].agreement < NormalizedCandidates[i].conf)
            => Returned(i)

\* Three candidates, two of which agree with each other; the third, collected
\* after the first, agrees with neither, outweighs the agreement score of
\* both, and its BPM is the one returned.
C21_Witness ==
    /\ HadCandidates
    /\ Len(NormalizedCandidates) = 3
    /\ \E i \in 2..3 :
          /\ \A j \in Others(i) :
                /\ Agreements[j].agreement < NormalizedCandidates[i].conf
                /\ NormalizedCandidates[j].conf < Agreements[j].agreement
                /\ ~bpm_similar(NormalizedCandidates[i].bpm, NormalizedCandidates[j].bpm)
          /\ Returned(i)
          /\ ~Returned(1)

\* ---------------------------------------------------------------------- C22
\* C22: when no estimator yields a candidate (each one failed or gave a BPM
\* that is not above 0), the call returns, and what it returns is the BPM 120
\* with the confidence 0.
C22_EmptySetGivesFallback ==
    (rhythm # <<>> /\ Candidates(estimates) = <<>>)
        => (rhythm.bpm = 120 /\ rhythm.confidence = 0)

\* A call in which all five estimators failed has returned.
C22_Witness ==
    /\ rhythm # <<>>
    /\ \A i \in 1..Len(Estimators) : estimates[Estimators[i]] = NoEstimate
    /\ rhythm.bpm > 0

\* ---------------------------------------------------------------------- C23
\* The winning agreement score: the highest one (in thousandths).
WinningScore ==
    CHOOSE a \in {Agreements[i].agreement : i \in 1..Len(Agreements)} :
        \A i \in 1..Len(Agreements) : Agreements[i].agreement <= a

\* C23 (as stated): the returned confidence equals min(1, winning agreement
\* score / 3), and lies in [0, 1].
C23_ConfidenceIsScoreOverThree ==
    HadCandidates =>
        /\ 3 * rhythm.confidence = Minimum(3000, WinningScore)
        /\ 0 <= rhythm.confidence /\ rhythm.confidence <= 1000

\* C23 (amended): the returned confidence is min(1, winning agreement score
\* / 3) rounded to three decimals (it is within half a thousandth of that
\* value, and a whole number of thousandths), and lies in [0, 1].
C23_ConfidenceIsRoundedScoreOverThree ==
    HadCandidates =>
        /\ rhythm.confidence \in Nat
        /\ LET exact == Minimum(3000, WinningScore)
               delta == exact - 3 * rhythm.confidence
           IN  -3 <= 2 * delta /\ 2 * delta <= 3
        /\ 0 <= rhythm.confidence /\ rhythm.confidence <= 1000

\* A call whose winning score, below 3, is no whole number of thousandths once
\* divided by 3, and whose winner got an agreement bonus.
C23_Witness ==
    /\ HadCandidates
    /\ WinningScore < 3000 /\ WinningScore % 3 # 0
    /\ \E i \in 1..Len(Agreements) :
          /\ Agreements[i].agreement = WinningScore
          /\ NormalizedCandidates[i].conf < WinningScore
    /\ rhythm.confidence > 0

\* ---------------------------------------------------------------- C24, C25
\* C24: every beat offset produced, by the detector (its first-beat fallbacks
\* included) and by the last fallback of the rhythm extraction, satisfies
\* 0 <= beat_offset < 60 / bpm after the rounding to milliseconds.
C24_OffsetWithinBeat ==
    (beat_offset # <<>> /\ ~beat_offset.value.none)
        => /\ 0 <= beat_offset.value.ms
           /\ beat_offset.value.ms * drop.bpm < 60000

\* C25: the detector returns None when the window holds less than 4 s of
\* audio, when fewer than 8 beats are detected or when a step fails, and a
\* number in every other case.
C25_UnavailableOrNumber ==
    (beat_offset # <<>> /\ beat_offset.by = "detector")
        => (beat_offset.value.none
              <=> (drop.raises \/ TooShort(drop) \/ drop.beats < 8))

\* The detector has returned a number from a downbeat that is not the first
\* beat found: eight beats or more were analysed.
C25_Witness ==
    /\ beat_offset # <<>> /\ beat_offset.by = "detector"
    /\ ~beat_offset.value.none
    /\ Len(bass_energies(drop)) >= 8
    /\ downbeat_position(drop) # 0

\* ---------------------------------------------------------------------- C26
\* C26: for an audio whose duration is at most the target segment duration,
\* the highlight finder returns the whole audio as the segment and
\* highlight_time = duration / 2.
C26_ShortAudioWhole ==
    (highlight # <<>>
     /\ full_audio.samples <= full_audio.segment_duration * SAMPLE_RATE)
        => /\ highlight.segment = [first |-> 0, last |-> full_audio.samples]
           /\ 2 * highlight.highlight_time = duration(full_audio)

\* A call on an audio shorter than the segment by one sample has returned.
C26_Witness ==
    /\ highlight # <<>>
    /\ full_audio.samples = full_audio.segment_duration * SAMPLE_RATE - 1
    /\ highlight.segment.last = full_audio.samples

\* ---------------------------------------------------------------------- C27
\* The jobs that have track t in processing: a batch task past its entry, a
\* POST /analyze job past its update to processing, a POST /analyze-bytes
\* request being handled.
InBatchTask(t) == InFlight(t) /\ task[t].pc # "created"

InJob(t) == \E j \in JobIds : jobs[j].id = t /\ jobs[j].pc \in {"downloading", "analyzing"}

InUpload(t) == \E u \in UploadIds : uploads[u].id = t /\ uploads[u].pc = "reading"

Busy(t) == InBatchTask(t) \/ InJob(t) \/ InUpload(t)

\* C27: while a job has a track in processing, no batch round selects that
\* track and starts a second job (a new task) for it.
C27_NoSecondJob ==
    [][\A t \in Tracks :
          Busy(t) => ~(task[t].pc # "created" /\ task'[t].pc = "created")]_vars

\* ---------------------------------------------------------------------- C28
\* The single-track jobs accepted for an id and not yet finished.
JobsFor(id) == {j \in JobIds : jobs[j].pc # "none" /\ jobs[j].id = id}

Occurrences(q, id) == Cardinality({i \in 1..Len(q) : q[i] = id})

\* C28: at most one single-track job per soundcloud_id is pending or running
\* at a time (a request for an id whose job is accepted and not finished
\* schedules no second one), and the queue holds each in-flight id once.
C28_OneJobPerId ==
    \A id \in Tracks :
        /\ Cardinality(JobsFor(id)) <= 1
        /\ Occurrences(analysis_queue, id) <= 1
        /\ InJob(id) => Occurrences(analysis_queue, id) = 1

\* ---------------------------------------------------------------------- C29
\* A round ends when gather returns the results and the loop has counted them.
RoundEnds(r) == loop[r].pc = "gather" /\ gather(r) = "results"

\* C29: at the end of every round processed = successful + failed = the number
\* of tasks launched in the round, and these are the completed, successful
\* and failed counters the tasks accumulated in _batch_stats.
C29_CountersAgree ==
    \A r \in Runs :
        RoundEnds(r) =>
            LET counted == CountResults(r)
            IN  /\ counted.processed = counted.successful + counted.failed
                /\ counted.processed = Cardinality(loop[r].tracks)
                /\ counted.processed = batch_stats.completed
                /\ counted.successful = batch_stats.successful
                /\ counted.failed = batch_stats.failed

\* ---------------------------------------------------------------------- C30
\* The three counters the status query reports.
Counters(bs) == <<bs.processed, bs.successful, bs.failed>>

NotBelow(after, before) ==
    \A i \in 1..3 : Counters(after)[i] >= Counters(before)[i]

\* C30: within one run, from the first round's start until is_running is
\* false again, the processed, successful and failed counters never decrease:
\* what a round has counted when it ends is carried into the requeue round
\* that follows, the counters being reset only when a new run starts.
C30_CountersNeverDecrease ==
    [][\A r \in Runs :
          (loop[r].pc \in {"launched", "gather"} /\ loop'[r].pc # "scheduled")
              => /\ NotBelow(get_batch_status', get_batch_status)
                 /\ (RoundEnds(r) /\ loop'[r] # loop[r])
                        => NotBelow(get_batch_status', CountResults(r))]_vars
\* ---------------------------------------------------------------------- C31
\* Both semaphores of the invocation are back at their initial value.
AllPermitsFree(r) == loop[r].dl = max_downloads /\ loop[r].an = max_analyses

\* C31: whatever the outcome of each task, a task that has ended holds no
\* permit; when every task of a round has ended both semaphores are back at
\* full capacity, and every round starts with all permits available.
C31_PermitsReleased ==
    /\ \A t \in Tracks : task[t].pc = "done" => task[t].held = {}
    /\ \A r \in Runs :
        /\ RoundEnds(r) => AllPermitsFree(r)
        /\ loop[r].pc = "launched" => AllPermitsFree(r)

\* A round has ended in which one task succeeded, one failed after its direct
\* stream timed out and one raised before its try block.
C31_Witness ==
    \E r \in Runs :
        /\ RoundEnds(r)
        /\ AllPermitsFree(r)
        /\ \E t \in loop[r].tracks : task[t].result = "true"
        /\ \E t \in loop[r].tracks : task[t].result = "false" /\ task[t].timed_out
        /\ \E t \in loop[r].tracks : task[t].result = "raised"
\* ---------------------------------------------------------------------- C32
\* The coroutine is at an await: the event loop runs others meanwhile.
Suspended(w) == coroutine[w].st \in {"suspended", "in_thread"}

\* The coroutine is blocked in Lock.acquire().
WaitsForLock(w) == running = w /\ Token(w) = "acquire" /\ progress_lock # 0

\* C32: the progress mutex is held only around in-memory updates and reads:
\* a coroutine that holds it is never suspended at an await (network I/O, a
\* permit, a catalog update, the analysis thread), so whoever waits for the
\* mutex waits for a holder that is running.
C32_LockNeverHeldAcrossAwait ==
    coroutine # <<>> =>
        /\ \A w \in Coroutines :
            progress_lock = w => running = w /\ ~Suspended(w)
        /\ \A w \in Coroutines :
            WaitsForLock(w) =>
                \E v \in Coroutines :
                    progress_lock = ThreadOf(v) /\ thread[v] = "callback"

\* A coroutine waits for the mutex while the analysis thread of another,
\* suspended, coroutine holds it inside a progress callback.
C32_Witness ==
    /\ coroutine # <<>>
    /\ \E w, v \in Coroutines :
        /\ w # v
        /\ WaitsForLock(w)
        /\ progress_lock = ThreadOf(v)
        /\ Suspended(v)
\* ---------------------------------------------------------------------- C33
\* C33: every write of processing clears analyzed_at and analysis_error and
\* every write of completed sets analyzed_at: in every catalog state a row in
\* processing has analyzed_at null and no error, a completed row has
\* analyzed_at set, and the stuck-processing predicate of the batch selection
\* matches every row that is in processing.
C33_ProcessingHasNoTimestamp ==
    \A t \in Tracks :
        /\ catalog[t].analysis_status = "processing" =>
              /\ ~catalog[t].analyzed_at
              /\ catalog[t].analysis_error = "none"
              /\ t \in Selected(FALSE)
        /\ catalog[t].analysis_status = "completed" => catalog[t].analyzed_at

\* A row analysed before (it has result columns) is in processing again, its
\* timestamp cleared, while another row is completed and has its timestamp.
C33_Witness ==
    \E t, u \in Tracks :
        /\ catalog[t].analysis_status = "processing"
        /\ catalog[t].columns # {}
        /\ ~catalog[t].analyzed_at
        /\ u # t
        /\ catalog[u].analysis_status = "completed"
        /\ catalog[u].analyzed_at
\* ---------------------------------------------------------------------- C34
\* The full re-analysis counts a failure for the track at the head of its list.
ReanalysisFails ==
    /\ reanalysis.pc = "streaming"
    /\ full_reanalysis_state'.failed = full_reanalysis_state.failed + 1

\* C34: when the stream, the analysis or the save of a track fails during a
\* full re-analysis, no catalog row changes (the track keeps the status and
\* the result columns it had); only the failed and processed counters of the
\* re-analysis grow, and the loop goes on with the next track of its list.
C34_FailureKeepsRow ==
    [][ReanalysisFails =>
          /\ catalog' = catalog
          /\ full_reanalysis_state'.processed = full_reanalysis_state.processed + 1
          /\ full_reanalysis_state'.successful = full_reanalysis_state.successful
          /\ full_reanalysis_state'.total_tracks = full_reanalysis_state.total_tracks
          /\ IF Len(reanalysis.todo) > 1
             THEN /\ reanalysis'.pc = "streaming"
                  /\ reanalysis'.todo = Tail(reanalysis.todo)
                  /\ full_reanalysis_state'.is_running
             ELSE /\ reanalysis' = NoReanalysis
                  /\ ~full_reanalysis_state'.is_running]_vars

\* The first track of a re-analysis of two has failed: it is still completed
\* with its result columns, and the stream of the second one is under way.
C34_Witness ==
    /\ reanalysis.pc = "streaming"
    /\ Len(reanalysis.todo) = 1
    /\ full_reanalysis_state.failed = 1
    /\ full_reanalysis_state.processed = 1
    /\ \A t \in 1..NumRowsAll :
          /\ catalog[t].analysis_status = "completed"
          /\ catalog[t].columns = AnalysisResult
\* ---------------------------------------------------------------------- C35
\* The results with a non-zero duration and an id whose duration is within
\* the tolerance of the expected one.
Eligible(s) ==
    {i \in 1..Len(s.videos) :
        /\ ~s.videos[i].null
        /\ s.videos[i].duration # 0
        /\ s.videos[i].has_id
        /\ Diff(s.videos[i], s.expected_duration_ms) <= tolerance * 1000}

\* The closest of them, the first one on ties.
Closest(s) ==
    CHOOSE i \in Eligible(s) :
        \A j \in Eligible(s) :
            LET di == Diff(s.videos[i], s.expected_duration_ms)
                dj == Diff(s.videos[j], s.expected_duration_ms)
            IN  di < dj \/ (di = dj /\ i <= j)

\* C35: the search returns the result closest in duration to the expected
\* duration among those with a non-zero duration and an id that are within
\* 30 s of it (the first on ties), and no URL exactly when there is none.
C35_ClosestWithinTolerance ==
    found # <<>> =>
        /\ ~found.raised
        /\ found.url = IF Eligible(search) = {} THEN 0 ELSE Closest(search)
\* ---------------------------------------------------------------------- C36
\* The agreement score as the claim words it, in thousandths: the candidate's
\* own weighted confidence plus 0.3 times that of every other candidate
\* similar to it.
AgreementScore(i) ==
    LET c == NormalizedCandidates
        similar == {j \in Others(i) : bpm_similar(c[i].bpm, c[j].bpm)}
        bonus == [j \in 1..Len(c) |-> (3 * c[j].conf) \div 10]
    IN  c[i].conf + Sum(bonus, similar)

\* The highest-scoring candidate, the earliest collected one on ties.
Winner ==
    CHOOSE i \in 1..Len(NormalizedCandidates) :
        /\ \A j \in Others(i) : AgreementScore(j) <= AgreementScore(i)
        /\ \A j \in 1..(i - 1) : AgreementScore(j) < AgreementScore(i)

\* {(128, 0.9, cnn), (64, 0.6, multi), (132, 0.5, degara)}
ScenarioA ==
    /\ estimates.cnn = [bpm |-> 128, conf |-> 900]
    /\ estimates.multi = [bpm |-> 64, conf |-> 600]
    /\ estimates.degara = [bpm |-> 132, conf |-> 500]
    /\ estimates.loop = NoEstimate
    /\ estimates.beats = NoEstimate

\* C36: the returned BPM is the octave-normalized BPM, rounded to the nearest
\* integer, of the candidate with the highest agreement score, the earliest
\* in collection order (cnn, multi, degara, loop, beats) on ties; scenario A
\* yields 128.
C36_HighestAgreementWins ==
    HadCandidates =>
        /\ Returned(Winner)
        /\ ScenarioA => ConsensusBpm = 128

\* Scenario A has been computed: the three candidates agree with each other,
\* the CNN's has the highest score and 128 is returned.
C36_Witness ==
    /\ HadCandidates
    /\ ScenarioA
    /\ Winner = 1
    /\ AgreementScore(1) = 2700 + 126 + 105
    /\ ConsensusBpm = 128

\* ---------------------------------------------------------------------- C37
\* C37: the similarity used for the agreement bonus is symmetric: of any two
\* normalized candidates, the first counts the second as agreeing iff the
\* second counts the first as agreeing.
C37_SimilaritySymmetric ==
    HadCandidates =>
        \A i, j \in 1..Len(NormalizedCandidates) :
            bpm_similar(NormalizedCandidates[i].bpm, NormalizedCandidates[j].bpm)
                <=> bpm_similar(NormalizedCandidates[j].bpm, NormalizedCandidates[i].bpm)
\* ---------------------------------------------------------------------- C38
\* The winning BPM: the rounded, normalized BPM of the highest-scoring
\* candidate.
WinningBpm ==
    round(NormalizedCandidates[Winner].bpm.n, NormalizedCandidates[Winner].bpm.d)

\* More than 10 beat events are available.
Dense == Len(beat_events) + 1 > 10

\* The intervals within 5% of the interval implied by the winning BPM: an
\* interval is r/1000 of 60 / estimates.beats.bpm.
InBand ==
    {k \in 1..Len(beat_events) :
        /\ 950 * estimates.beats.bpm <= beat_events[k] * WinningBpm
        /\ beat_events[k] * WinningBpm <= 1050 * estimates.beats.bpm}

\* 60 / mean of the intervals in the band, as a fraction.
RefinedBpm ==
    [n |-> 1000 * estimates.beats.bpm * Cardinality(InBand),
     d |-> Sum(beat_events, InBand)]

\* The recomputed value differs from the winning BPM by less than 1.0.
Accepted ==
    /\ Dense
    /\ InBand # {}
    /\ Abs(RefinedBpm.n - WinningBpm * RefinedBpm.d) < RefinedBpm.d

\* C38: with more than 10 beat events, the BPM returned is the one recomputed
\* from the mean of the beat-to-beat intervals within 5% of the interval
\* implied by the winning BPM when that differs from the winning BPM by less
\* than 1.0, and the winning BPM otherwise.
C38_RefinedFromBeats ==
    HadCandidates =>
        IF Accepted
        THEN ConsensusBpm * RefinedBpm.d = RefinedBpm.n
        ELSE ConsensusBpm = WinningBpm
\* ---------------------------------------------------------------------- C39
\* The call went through the position analysis: at least 8 beats analysed.
Analysed ==
    /\ beat_offset # <<>> /\ beat_offset.by = "detector"
    /\ ~beat_offset.value.none
    /\ Len(bass_energies(drop)) >= MinBeats

\* The analysed beats at metrical position p: round((t - t_first) /
\* beat_interval) mod 4 = p.
BeatsAt(p) ==
    LET all == bass_energies(drop)
    IN  {k \in 1..Len(all) :
            round((all[k].time - all[1].time) * drop.bpm, 600000) % 4 = p}

\* The mean bass energy of position p as a fraction (0 for no beat).
MeanAt(p) ==
    LET all == bass_energies(drop)
        e == [k \in 1..Len(all) |-> all[k].energy]
    IN  IF BeatsAt(p) = {} THEN [sum |-> 0, count |-> 1]
        ELSE [sum |-> Sum(e, BeatsAt(p)), count |-> Cardinality(BeatsAt(p))]

Highest(p) == \A q \in 0..3 : ~MeanLess(MeanAt(p), MeanAt(q))

Lowest(p) == \A q \in 0..3 : ~MeanLess(MeanAt(q), MeanAt(p))

\* (max - min) / max of the four means exceeds 0.1
SpreadExceeds ==
    \E p, q \in 0..3 :
        /\ Highest(p) /\ Lowest(q)
        /\ MeanAt(p).sum > 0
        /\ 10 * (MeanAt(p).sum * MeanAt(q).count - MeanAt(q).sum * MeanAt(p).count)
              > MeanAt(p).sum * MeanAt(q).count

\* Position p is the downbeat the claim describes.
IsDownbeat(p) == IF SpreadExceeds THEN Highest(p) ELSE p = 0

\* The track time, in ticks, of the first analysed beat at position p.
FirstAt(p) ==
    LET k == CHOOSE i \in BeatsAt(p) : \A j \in BeatsAt(p) : i <= j
    IN  bass_energies(drop)[k].time + drop_start(drop)

\* The first beat's time modulo beat_interval, times bpm (in ticks).
ExactPhase(p) == (FirstAt(p) * drop.bpm) % 600000

\* The offset returned, in the same unit.
ReturnedPhase == beat_offset.value.ms * 10 * drop.bpm

\* C39 (as stated): the downbeat is the position with the highest mean when
\* the spread exceeds 0.1 and position 0 otherwise, it holds a beat, and the
\* offset returned is the time of its first beat modulo beat_interval.
C39_OffsetIsDownbeatPhase ==
    Analysed =>
        \E p \in 0..3 :
            /\ IsDownbeat(p)
            /\ BeatsAt(p) # {}
            /\ ReturnedPhase = ExactPhase(p)

\* C39 (amended): the same, the offset returned being the track time of the
\* first beat at the downbeat position modulo beat_interval, rounded to the
\* nearest millisecond.
C39_OffsetIsRoundedDownbeatPhase ==
    Analysed =>
        \E p \in 0..3 :
            /\ IsDownbeat(p)
            /\ BeatsAt(p) # {}
            /\ beat_offset.value = Some(RoundedPhase(FirstAt(p), drop.bpm))
            /\ Abs(ReturnedPhase - ExactPhase(p)) <= 5 * drop.bpm

\* The spread exceeds 0.1, the downbeat is not position 0, and the phase of
\* its first beat is no whole number of milliseconds.
C39_Witness ==
    /\ Analysed
    /\ SpreadExceeds
    /\ ~Highest(0)
    /\ \E p \in 1..3 :
          /\ Highest(p)
          /\ ExactPhase(p) % (10 * drop.bpm) # 0
          /\ beat_offset.value = Some(RoundedPhase(FirstAt(p), drop.bpm))


\* ---------------------------------------------------------------------- C40
\* The audio is longer than the target segment and the finder has returned.
LongAudio ==
    /\ highlight # <<>>
    /\ full_audio.samples > full_audio.segment_duration * SAMPLE_RATE

\* d / 2 <= h <= duration - d / 2
HighlightInBounds ==
    LET half_segment == Seconds(full_audio.segment_duration) \div 2
    IN  /\ half_segment <= highlight.highlight_time
        /\ highlight.highlight_time <= duration(full_audio) - half_segment

\* The segment is the sample range [h - d / 2, h + d / 2].
SegmentCentred ==
    LET half_segment == Seconds(full_audio.segment_duration) \div 2
    IN  /\ 2 * highlight.segment.first = highlight.highlight_time - half_segment
        /\ 2 * highlight.segment.last = highlight.highlight_time + half_segment

\* The segment lies within [0, duration].
SegmentInside ==
    /\ 0 <= highlight.segment.first
    /\ highlight.segment.last <= full_audio.samples

\* The segment has length d.
SegmentLength ==
    highlight.segment.last - highlight.segment.first
        = full_audio.segment_duration * SAMPLE_RATE

\* C40: for audio longer than the target segment duration d, the returned
\* highlight_time h satisfies d / 2 <= h <= duration - d / 2, and the segment
\* extracted is the sample range [h - d / 2, h + d / 2], which lies within
\* [0, duration] and has length d.
C40_SegmentCentredInBounds ==
    LongAudio => /\ HighlightInBounds
                 /\ SegmentCentred
                 /\ SegmentInside
                 /\ SegmentLength

====
